---------------------------- MODULE Spec2Model ----------------------------
(***************************************************************************)
(* Model of the biometric-gated voting demo (iris-vote-secure-system).     *)
(*                                                                         *)
(* The model follows src/src/context/VotingContext.tsx (first copy in the  *)
(* file, lines 1-1043) for the voting context and its face heuristics and  *)
(* src/iris-vote-secure-system-main/src/components/VoteCasting.tsx for the *)
(* vote-casting flow.                                                      *)
(*                                                                         *)
(* Scale.  A face blob is a data URL whose payload has tens of thousands   *)
(* of base64 characters.  The model keeps every check, loop and formula of *)
(* the source but works on short payloads over a three-character alphabet; *)
(* the length-like literals of the source (20000, 3000, 300, ...) appear   *)
(* as named definitions with correspondingly small values.  Thresholds and *)
(* weights keep the values of the source.                                  *)
(*                                                                         *)
(* Numbers.  JavaScript numbers are modelled as exact rationals <<n, d>>   *)
(* (d > 0, lowest terms); <<0, 0>> stands for NaN (0/0).                   *)
(***************************************************************************)
EXTENDS Integers, Sequences, FiniteSets, TLC

(***************************************************************************)
(* Rational arithmetic                                                     *)
(***************************************************************************)
Abs(x) == IF x < 0 THEN -x ELSE x

Min2(a, b) == IF a <= b THEN a ELSE b

Max2(a, b) == IF a >= b THEN a ELSE b

RECURSIVE Gcd(_, _)
Gcd(a, b) == IF b = 0 THEN a ELSE Gcd(b, a % b)

NaN == <<0, 0>>

IsNaN(r) == r[2] = 0

R(n, d) ==
  IF d = 0 THEN NaN
  ELSE LET g == Gcd(Abs(n), Abs(d))
           s == IF d < 0 THEN -1 ELSE 1
       IN  <<(s * n) \div g, (s * d) \div g>>

Zero == <<0, 1>>

One == <<1, 1>>

RAdd(a, b) ==
  IF IsNaN(a) \/ IsNaN(b) THEN NaN
  ELSE LET g == Gcd(a[2], b[2])
       IN  R(a[1] * (b[2] \div g) + b[1] * (a[2] \div g), (a[2] \div g) * b[2])

RNeg(a) == IF IsNaN(a) THEN NaN ELSE <<-a[1], a[2]>>

RSub(a, b) == RAdd(a, RNeg(b))

RMul(a, b) ==
  IF IsNaN(a) \/ IsNaN(b) THEN NaN
  ELSE LET g1 == Gcd(Abs(a[1]), b[2])
           g2 == Gcd(Abs(b[1]), a[2])
           h1 == IF g1 = 0 THEN 1 ELSE g1
           h2 == IF g2 = 0 THEN 1 ELSE g2
       IN  R((a[1] \div h1) * (b[1] \div h2), (a[2] \div h2) * (b[2] \div h1))

\* a / b for integers a, b (0/0 is NaN; the model never divides a nonzero by 0)
RDiv(a, b) == R(a, b)

\* comparisons; every comparison with NaN is false, as in JavaScript
RLt(a, b) == ~IsNaN(a) /\ ~IsNaN(b) /\ a[1] * b[2] < b[1] * a[2]

RLe(a, b) == ~IsNaN(a) /\ ~IsNaN(b) /\ a[1] * b[2] <= b[1] * a[2]

RGe(a, b) == RLe(b, a)

RGt(a, b) == RLt(b, a)

RECURSIVE RSum(_)
RSum(s) == IF s = <<>> THEN Zero ELSE RAdd(s[1], RSum(Tail(s)))

RECURSIVE RPow(_, _)
RPow(a, k) == IF k = 0 THEN One ELSE RMul(a, RPow(a, k - 1))

RECURSIVE IPow(_, _)
IPow(a, k) == IF k = 0 THEN 1 ELSE a * IPow(a, k - 1)

\* a / b for rationals (x/0 is NaN here; the model only divides 0 by 0)
RQuot(a, b) ==
  IF IsNaN(a) \/ IsNaN(b) \/ b[1] = 0 THEN NaN
  ELSE RMul(a, IF b[1] < 0 THEN <<-b[2], -b[1]>> ELSE <<b[2], b[1]>>)

RAbs(a) == <<Abs(a[1]), a[2]>>

\* Math.max / Math.min of two numbers (NaN if either is NaN)
RMax(a, b) == IF IsNaN(a) \/ IsNaN(b) THEN NaN ELSE IF RGe(a, b) THEN a ELSE b

RMin(a, b) == IF IsNaN(a) \/ IsNaN(b) THEN NaN ELSE IF RLe(a, b) THEN a ELSE b

\* Math.floor of a rational that is not NaN
RFloor(a) == a[1] \div a[2]

\* largest k with k * k <= n, by bisection on lo * lo <= n < hi * hi
RECURSIVE ISqrtIn(_, _, _)
ISqrtIn(n, lo, hi) ==
  IF hi - lo <= 1 THEN lo
  ELSE LET mid == (lo + hi) \div 2
       IN  IF mid * mid <= n THEN ISqrtIn(n, mid, hi) ELSE ISqrtIn(n, lo, mid)

ISqrt(n) == ISqrtIn(n, 0, 46341)

\* floor(a * 10^digits / b) for a >= 0, b > 0, by long division
RECURSIVE LongDiv(_, _, _)
LongDiv(a, b, digits) ==
  IF digits = 0 THEN a \div b
  ELSE (a \div b) * IPow(10, digits) + LongDiv((a % b) * 10, b, digits - 1)

(***************************************************************************)
(* Face blobs                                                              *)
(***************************************************************************)
\* the base64 characters of the model and their char codes
Alphabet == {"/", "R", "i"}

\* c.charCodeAt(0)
CharCode == [c \in Alphabet |-> IF c = "/" THEN 47 ELSE IF c = "R" THEN 82 ELSE 105]

\* bound: longest payload of a face blob
MaxPayload == 5

RECURSIVE SeqsUpTo(_)
SeqsUpTo(n) ==
  IF n = 0 THEN {<<>>}
  ELSE LET prev == SeqsUpTo(n - 1)
       IN  prev \cup {Append(s, c) : s \in {p \in prev : Len(p) = n - 1}, c \in Alphabet}

Payloads == SeqsUpTo(MaxPayload)

\* a character outside the base64 alphabet
Foreign == "!"

\* payloads in which characters outside the base64 alphabet may occur
RECURSIVE StringsUpTo(_, _)
StringsUpTo(chars, n) ==
  IF n = 0 THEN {<<>>}
  ELSE LET prev == StringsUpTo(chars, n - 1)
       IN  prev \cup {Append(s, c) : s \in {p \in prev : Len(p) = n - 1}, c \in chars}

AnyPayloads == StringsUpTo(Alphabet \cup {Foreign}, MaxPayload)

\* number of characters of "data:image/jpeg;base64," in model units
STD_HEAD == 1

\* a data URL with an over-long media type in front of the base64 marker
LONG_HEAD == 3

\* A blob is a JavaScript value: undefined, a value that is no string (a
\* number, an object), or a string described by
\*   prefix: it starts with 'data:image/'
\*   marker: it contains 'base64,'
\*   head  : number of characters up to and including the marker
\*   data  : the characters after the marker (the whole string without one)
UndefinedBlob == [kind |-> "undefined", prefix |-> FALSE, marker |-> FALSE, head |-> 0, data |-> <<>>]

NonStringBlob == [kind |-> "object", prefix |-> FALSE, marker |-> FALSE, head |-> 0, data |-> <<>>]

DataUrl(h, p) == [kind |-> "string", prefix |-> TRUE, marker |-> TRUE, head |-> h, data |-> p]

RawString(p) == [kind |-> "string", prefix |-> FALSE, marker |-> FALSE, head |-> 0, data |-> p]

NoMarker(p) == [kind |-> "string", prefix |-> TRUE, marker |-> FALSE, head |-> STD_HEAD, data |-> p]

StrLen(b) == b.head + Len(b.data)

\* value.length is a TypeError when value is undefined or null
LengthThrows(value) == value.kind = "undefined"

\* value.startsWith(...) is a TypeError when value is not a string
MethodThrows(value) == value.kind # "string"

\* what a call that threw leaves in place of a result
Thrown == [thrown |-> "TypeError"]

\* !faceData || typeof faceData !== 'string'
Falsy(b) == b.kind # "string" \/ StrLen(b) = 0

\* new Set(s): the distinct characters of s
CharSet(s) == {s[i] : i \in 1..Len(s)}

\* s.substring(from, to) with 0-based, clamped indices
Substring(s, from, to) ==
  LET f == Min2(Max2(from, 0), Len(s))
      t == Min2(Max2(to, 0), Len(s))
  IN  IF f >= t THEN <<>> ELSE SubSeq(s, f + 1, t)

\* number of occurrences of c in s
Count(s, c) == Cardinality({i \in 1..Len(s) : s[i] = c})

\* number of positions 0 <= i < n at which a and b agree
Matches(a, b, n) == Cardinality({i \in 1..n : a[i] = b[i]})

(***************************************************************************)
(* validateFaceImageQuality                                                *)
(***************************************************************************)
MIN_FACE_LENGTH == 4

BASE64_SYMBOLS == 3

MIN_COMPLEXITY == <<85, 100>>

\* '/9j/', 'iVBOR', 'R0lGOD'
jpegSignatures == {<<"/", "R">>, <<"i", "R">>, <<"R", "/">>}

minEntropy == <<3, 2>>

StartsWith(s, sig) == Len(s) >= Len(sig) /\ SubSeq(s, 1, Len(sig)) = sig

\* entropy(data) >= m for a rational m = a/b, decided exactly:
\*   -SUM p log2 p >= a/b  <=>  PROD over chars (n^b / (2^a c^b))^c >= 1
EntropyAtLeast(data, m) ==
  LET n == Len(data)
      used == CharSet(data)
      factor(c) == RPow(R(IPow(n, m[2]), IPow(2, m[1]) * IPow(Count(data, c), m[2])), Count(data, c))
      RECURSIVE prod(_)
      prod(S) == IF S = {} THEN One
                 ELSE LET c == CHOOSE x \in S : TRUE IN RMul(factor(c), prod(S \ {c}))
  IN  RGe(prod(used), One)

validateFaceImageQuality(faceData) ==
  IF Falsy(faceData) THEN [isValid |-> FALSE, details |-> "No face data provided"]
  ELSE IF ~faceData.prefix THEN [isValid |-> FALSE, details |-> "not a data URL"]
  ELSE IF ~faceData.marker THEN [isValid |-> FALSE, details |-> "no base64 data"]
  ELSE LET base64Data == faceData.data
           uniqueChars == Cardinality(CharSet(base64Data))
           complexityScore == RDiv(uniqueChars, BASE64_SYMBOLS)
       IN  IF Len(base64Data) < MIN_FACE_LENGTH
             THEN [isValid |-> FALSE, details |-> "data length too low"]
           ELSE IF RLt(complexityScore, MIN_COMPLEXITY)
             THEN [isValid |-> FALSE, details |-> "complexity too low"]
           ELSE IF ~(\E sig \in jpegSignatures : StartsWith(base64Data, sig))
             THEN [isValid |-> FALSE, details |-> "Invalid image header"]
           ELSE IF ~EntropyAtLeast(base64Data, minEntropy)
             THEN [isValid |-> FALSE, details |-> "entropy too low"]
           ELSE [isValid |-> TRUE, details |-> "Valid"]

(***************************************************************************)
(* calculateMaximumSecurityFaceSimilarity (registration-time scorer)       *)
(***************************************************************************)
\* headerSizes = [500, 1000, 2000, 3000, 5000]
headerSizes == <<1, 2, 3, 4, 5>>

\* segmentConfigs: {segments, overlap} = {5, 0}, {10, 0.2}, {20, 0.3}, {50, 0.5}, {100, 0.1}
segmentConfigs ==
  << [segments |-> 2, overlap |-> <<0, 1>>],
     [segments |-> 2, overlap |-> <<1, 5>>],
     [segments |-> 2, overlap |-> <<3, 10>>],
     [segments |-> 2, overlap |-> <<1, 2>>],
     [segments |-> 2, overlap |-> <<1, 10>>] >>

\* windowConfigs: {size, stride} = {25, 10}, {50, 20}, {100, 40}, {200, 80}, {500, 200}, {1000, 400}
windowConfigs ==
  << [size |-> 1, stride |-> 1],
     [size |-> 2, stride |-> 1],
     [size |-> 2, stride |-> 1],
     [size |-> 3, stride |-> 1],
     [size |-> 3, stride |-> 1],
     [size |-> 4, stride |-> 2] >>

\* hashAnalyses sizes = [64, 128, 256, 512, 1024]
hashSizes == <<1, 2, 2, 3, 4>>

analyzeMultiResolutionHeaders(data1, data2) ==
  LET headerSim(size) ==
        LET headerLength == Min2(size, Min2(Len(data1), Len(data2)))
        IN  RDiv(Matches(data1, data2, headerLength), headerLength)
      totalHeaderScore == RSum([k \in 1..Len(headerSizes) |-> headerSim(headerSizes[k])])
  IN  RMul(totalHeaderScore, <<1, Len(headerSizes)>>)

\* sum / count of a loop result <<sum, count>>, 0 when the loop ran no iteration
Average(res) == IF res[2] > 0 THEN RMul(res[1], <<1, res[2]>>) ELSE Zero

advancedSegmentAnalysis(data1, data2) ==
  LET minLength == Min2(Len(data1), Len(data2))
      avgSegmentScore(config) ==
        LET baseSegmentSize == minLength \div config.segments
            stride == RFloor(RMul(<<baseSegmentSize, 1>>, RSub(One, config.overlap)))
            segmentSim(i) ==
              LET end == Min2(i + baseSegmentSize, minLength)
                  segment1 == Substring(data1, i, end)
                  segment2 == Substring(data2, i, end)
              IN  RDiv(Matches(segment1, segment2, Min2(Len(segment1), Len(segment2))),
                       Max2(Len(segment1), Len(segment2)))
            \* for (let i = 0; i < minLength - baseSegmentSize; i += stride): <<sum, count>>
            RECURSIVE loop(_)
            loop(i) ==
              IF i < minLength - baseSegmentSize
                THEN LET rest == loop(i + stride)
                     IN  <<RAdd(segmentSim(i), rest[1]), rest[2] + 1>>
                ELSE <<Zero, 0>>
        IN  Average(loop(0))
      totalSegmentScore ==
        RSum([k \in 1..Len(segmentConfigs) |-> avgSegmentScore(segmentConfigs[k])])
  IN  RMul(totalSegmentScore, <<1, Len(segmentConfigs)>>)

\* getNGrams: the n-grams of str and how often each occurs
NGramsOf(str, n) == {SubSeq(str, i, i + n - 1) : i \in 1..(Len(str) - n + 1)}

NGramCount(str, g) ==
  Cardinality({i \in 1..(Len(str) - Len(g) + 1) : SubSeq(str, i, i + Len(g) - 1) = g})

analyzeNGrams(data1, data2, n) ==
  LET allNGrams == NGramsOf(data1, n) \cup NGramsOf(data2, n)
      RECURSIVE sim(_)
      sim(S) ==
        IF S = {} THEN Zero
        ELSE LET g == CHOOSE x \in S : TRUE
                 freq1 == NGramCount(data1, g)
                 freq2 == NGramCount(data2, g)
             IN  RAdd(RDiv(Min2(freq1, freq2), Max2(freq1, freq2)), sim(S \ {g}))
  IN  IF Cardinality(allNGrams) > 0
        THEN RMul(sim(allNGrams), <<1, Cardinality(allNGrams)>>)
        ELSE Zero

\* unigram, bigram and trigram similarity with weights 0.4, 0.35 and 0.25
nGramWeights == << <<40, 100>>, <<35, 100>>, <<25, 100>> >>

deepCharacterAnalysis(data1, data2) ==
  RSum([n \in 1..Len(nGramWeights) |-> RMul(analyzeNGrams(data1, data2, n), nGramWeights[n])])

advancedSlidingWindow(data1, data2) ==
  LET limit == Min2(Len(data1), Len(data2))
      avgWindowScore(config) ==
        LET windowSimilarity(i) ==
              LET window1 == Substring(data1, i, i + config.size)
                  window2 == Substring(data2, i, i + config.size)
              IN  RDiv(Matches(window1, window2, config.size), config.size)
            \* for (let i = 0; i <= min(len1, len2) - size; i += stride): <<sum, count>>
            RECURSIVE loop(_)
            loop(i) ==
              IF i <= limit - config.size
                THEN LET rest == loop(i + config.stride)
                     IN  <<RAdd(windowSimilarity(i), rest[1]), rest[2] + 1>>
                ELSE <<Zero, 0>>
        IN  Average(loop(0))
      totalWindowScore ==
        RSum([k \in 1..Len(windowConfigs) |-> avgWindowScore(windowConfigs[k])])
  IN  RMul(totalWindowScore, <<1, Len(windowConfigs)>>)

cryptographicHashAnalysis(data1, data2) ==
  LET hashScore(size) ==
        LET sample1 == Substring(data1, 0, Min2(size, Len(data1)))
            sample2 == Substring(data2, 0, Min2(size, Len(data2)))
            minLength == Min2(Len(sample1), Len(sample2))
        IN  RDiv(Matches(sample1, sample2, minLength), minLength)
      totalHashScore == RSum([k \in 1..Len(hashSizes) |-> hashScore(hashSizes[k])])
  IN  RMul(totalHashScore, <<1, Len(hashSizes)>>)

\* reduce((a, b) => a + b, 0) over a sequence of integers
RECURSIVE SumSeq(_)
SumSeq(xs) == IF xs = <<>> THEN 0 ELSE Head(xs) + SumSeq(Tail(xs))

\* a quotient of integers rounded down (in magnitude) to the given decimals
Fixed(a, b, digits) ==
  IF b = 0 THEN NaN
  ELSE LET sgn == IF (a < 0) = (b < 0) THEN 1 ELSE -1
       IN  R(sgn * LongDiv(Abs(a), Abs(b), digits), IPow(10, digits))

Milli(a, b) == Fixed(a, b, 3)

\* a number rounded down (in magnitude) to three decimals
RoundMilli(q) == IF IsNaN(q) THEN NaN ELSE Milli(q[1], q[2])

\* Math.sqrt, rounded down to two decimals
SqrtCenti(q) ==
  IF IsNaN(q) THEN NaN ELSE R(ISqrt(LongDiv(q[1], q[2], 4)), 100)

\* getAdvancedStats.  With dev[i] = n * code(i) - sum of codes (n times the
\* deviation from the mean) and W the sum of the dev[i]^2:
\*   mean = sum / n and variance = W / n^3 exactly;
\*   stdDev = sqrt(variance), to two decimals;
\*   z(i) = (code(i) - mean) / stdDev = dev[i] / (n stdDev), to two decimals;
\*   q(i) = z(i)^2 = n dev[i]^2 / W, to three decimals;
\*   skewness = SUM z(i)^3 / n = SUM q(i) z(i) / n, to three decimals;
\*   kurtosis = SUM z(i)^4 / n - 3 = SUM q(i)^2 / n - 3, to three decimals.
\* A constant string has stdDev 0, and its skewness and kurtosis are 0/0.
charCodes(data) == [i \in 1..Len(data) |-> CharCode[data[i]]]

deviationsFrom(values, sum) == [i \in 1..Len(values) |-> Len(values) * values[i] - sum]

deviations(values) == deviationsFrom(values, SumSeq(values))

squares(dev) == [i \in 1..Len(dev) |-> dev[i] * dev[i]]

\* ((b - mean) / stdDev)^3 for one value, from its deviation d
cubed(d, n, W, stdDev) == RMul(Milli(n * d * d, W), Fixed(d * stdDev[2], n * stdDev[1], 2))

\* ((b - mean) / stdDev)^4 for one value, from its q
fourthPower(q) == RMul(q, q)

skewnessOf(dev, W, stdDev) ==
  IF W = 0 THEN NaN
  ELSE RoundMilli(RMul(RSum([i \in 1..Len(dev) |-> cubed(dev[i], Len(dev), W, stdDev)]),
                       <<1, Len(dev)>>))

kurtosisOf(dev, W) ==
  IF W = 0 THEN NaN
  ELSE RoundMilli(RSub(RMul(RSum([i \in 1..Len(dev) |->
                                    fourthPower(Milli(Len(dev) * dev[i] * dev[i], W))]),
                            <<1, Len(dev)>>),
                       <<3, 1>>))

\* freqMean = n / k for k distinct characters;
\* freqVariance = SUM (f - n/k)^2 / k = SUM (k f - n)^2 / k^3
freqVarianceOf(data, distinct) ==
  LET k == Cardinality(distinct)
      RECURSIVE fdev(_)
      fdev(S) == IF S = {} THEN 0
                 ELSE LET c == CHOOSE x \in S : TRUE
                      IN  (k * Count(data, c) - Len(data)) * (k * Count(data, c) - Len(data))
                            + fdev(S \ {c})
  IN  R(fdev(distinct), k * k * k)

statsOfSpread(data, values, dev, W, variance) ==
  [ mean |-> R(SumSeq(values), Len(values)),
    variance |-> variance,
    stdDev |-> SqrtCenti(variance),
    skewness |-> skewnessOf(dev, W, SqrtCenti(variance)),
    kurtosis |-> kurtosisOf(dev, W),
    freqVariance |-> freqVarianceOf(data, {c \in Alphabet : Count(data, c) > 0}) ]

statsOfSquares(data, values, dev, W) ==
  statsOfSpread(data, values, dev, W, R(W, Len(values) * Len(values) * Len(values)))

statsOfDeviations(data, values, dev) == statsOfSquares(data, values, dev, SumSeq(squares(dev)))

statsOfValues(data, values) == statsOfDeviations(data, values, deviations(values))

getAdvancedStats(data) == statsOfValues(data, charCodes(data))

compareToMax(s1, s2, maxStat) ==
  IF RGt(maxStat, Zero)
    THEN RoundMilli(RSub(One, RQuot(RAbs(RSub(s1, s2)), maxStat)))
    ELSE One

compareStat(s1, s2) == compareToMax(s1, s2, RMax(RAbs(s1), RAbs(s2)))

statNames == <<"mean", "variance", "stdDev", "skewness", "kurtosis", "freqVariance">>

compareStats(stats1, stats2) ==
  RMul(RSum([k \in 1..Len(statNames) |-> compareStat(stats1[statNames[k]], stats2[statNames[k]])]),
       <<1, Len(statNames)>>)

advancedStatisticalAnalysis(data1, data2) ==
  compareStats(getAdvancedStats(data1), getAdvancedStats(data2))

\* analyzePatterns: <<repeatingChars, alternatingChars, increasingSequences,
\*                    decreasingSequences, commonSubstrings>>
analyzePatterns(data) ==
  LET idx == 1..(Len(data) - 1)
  IN  << Cardinality({i \in idx : data[i] = data[i + 1]}),
         Cardinality({i \in idx : i > 1 /\ data[i - 1] = data[i + 1] /\ data[i - 1] # data[i]}),
         Cardinality({i \in idx : CharCode[data[i]] < CharCode[data[i + 1]]}),
         Cardinality({i \in idx : CharCode[data[i]] > CharCode[data[i + 1]]}),
         0 >>

\* Math.min(a, b) / Math.max(a, b) when the maximum is positive, else nothing added
ratioOfCounts(a, b) == IF Max2(a, b) > 0 THEN RDiv(Min2(a, b), Max2(a, b)) ELSE Zero

comparePatterns(patterns1, patterns2) ==
  RMul(RSum([key \in 1..Len(patterns1) |-> ratioOfCounts(patterns1[key], patterns2[key])]),
       <<1, Len(patterns1)>>)

patternDensityAnalysis(data1, data2) ==
  comparePatterns(analyzePatterns(data1), analyzePatterns(data2))

\* a weighted sum of scores
weighted(scores, weightOf) ==
  RSum([k \in 1..Len(scores) |-> RMul(scores[k], weightOf[k])])

\* weights: multiHeader, advancedSegment, deepCharacter, advancedWindow,
\* cryptoHash, advancedStats, patternDensity
weights == << <<20, 100>>, <<18, 100>>, <<15, 100>>, <<15, 100>>, <<12, 100>>, <<10, 100>>,
              <<10, 100>> >>

\* the scores of the seven analyses, in the order of their weights
maximumSecurityScores(data1, data2) ==
  << analyzeMultiResolutionHeaders(data1, data2),
     advancedSegmentAnalysis(data1, data2),
     deepCharacterAnalysis(data1, data2),
     advancedSlidingWindow(data1, data2),
     cryptographicHashAnalysis(data1, data2),
     advancedStatisticalAnalysis(data1, data2),
     patternDensityAnalysis(data1, data2) >>

\* the weighted composite of the seven analyses
maximumSecurityComposite(data1, data2) ==
  weighted(maximumSecurityScores(data1, data2), weights)

calculateMaximumSecurityFaceSimilarity(face1, face2) ==
  IF face1 = face2 THEN One
  ELSE IF ~validateFaceImageQuality(face1).isValid \/ ~validateFaceImageQuality(face2).isValid
    THEN Zero
  ELSE maximumSecurityComposite(face1.data, face2.data)

(***************************************************************************)
(* calculateVotingFaceSimilarity (vote-time scorer)                        *)
(***************************************************************************)
\* data.length > 3000
VOTING_MIN_LENGTH == 2

\* header analysis: first 300 characters
VOTING_HEADER == 2

numSegments == 2

\* getCharFrequency steps through the string with i += 5
FREQ_STRIDE == 1

isValidImage(data) ==
  data.kind = "string" /\ data.prefix /\ data.marker /\ StrLen(data) > VOTING_MIN_LENGTH

\* dataUrl.substring(indexOf('base64,') + 7), the whole string without a marker
getBase64(dataUrl) == dataUrl.data

\* freq[c]: occurrences of c among str[0], str[FREQ_STRIDE], str[2 FREQ_STRIDE], ...
getCharFrequency(str) ==
  [c \in Alphabet |->
     Cardinality({i \in 1..Len(str) : (i - 1) % FREQ_STRIDE = 0 /\ str[i] = c})]

votingLengthScore(data1, data2) ==
  LET lengthRatio == RDiv(Min2(Len(data1), Len(data2)), Max2(Len(data1), Len(data2)))
  IN  IF RLt(lengthRatio, <<7, 10>>) THEN <<3, 10>> ELSE lengthRatio

votingHeaderSimilarity(data1, data2) ==
  LET headerLength == Min2(VOTING_HEADER, Min2(Len(data1), Len(data2)))
  IN  RDiv(Matches(data1, data2, headerLength), headerLength)

votingSegmentSimilarity(data1, data2) ==
  LET minLen == Min2(Len(data1), Len(data2))
      segmentSize == minLen \div numSegments
      segmentSim(i) ==
        LET start == i * segmentSize
            end == Min2(start + segmentSize, minLen)
            segment1 == Substring(data1, start, end)
            segment2 == Substring(data2, start, end)
            segmentLength == Min2(Len(segment1), Len(segment2))
        IN  IF segmentLength > 0
              THEN RDiv(Matches(segment1, segment2, segmentLength), segmentLength)
              ELSE Zero
      totalSegmentSimilarity == RSum([i \in 1..numSegments |-> segmentSim(i - 1)])
  IN  RMul(totalSegmentSimilarity, <<1, numSegments>>)

votingFrequencySimilarity(data1, data2) ==
  LET freq1 == getCharFrequency(data1)
      freq2 == getCharFrequency(data2)
      allChars == {c \in Alphabet : freq1[c] > 0 \/ freq2[c] > 0}
      RECURSIVE score(_)
      score(S) ==
        IF S = {} THEN Zero
        ELSE LET c == CHOOSE x \in S : TRUE
             IN  RAdd(RDiv(Min2(freq1[c], freq2[c]), Max2(freq1[c], freq2[c])), score(S \ {c}))
  IN  IF Cardinality(allChars) > 0
        THEN RMul(score(allChars), <<1, Cardinality(allChars)>>)
        ELSE Zero

\* the vote-time scorer without its exact-match check
votingSimilarityWithoutExactMatch(registeredFace, currentFace) ==
  IF ~isValidImage(registeredFace) \/ ~isValidImage(currentFace) THEN Zero
  ELSE LET data1 == getBase64(registeredFace)
           data2 == getBase64(currentFace)
       IN  RSum(<< RMul(votingLengthScore(data1, data2), <<15, 100>>),
                   RMul(votingHeaderSimilarity(data1, data2), <<35, 100>>),
                   RMul(votingSegmentSimilarity(data1, data2), <<35, 100>>),
                   RMul(votingFrequencySimilarity(data1, data2), <<15, 100>>) >>)

\* the vote-time scorer that validates the captured blob only
votingSimilarityTrustingEnrolled(registeredFace, currentFace) ==
  IF registeredFace = currentFace THEN One
  ELSE IF ~isValidImage(currentFace) THEN Zero
  ELSE LET data1 == getBase64(registeredFace)
           data2 == getBase64(currentFace)
       IN  RSum(<< RMul(votingLengthScore(data1, data2), <<15, 100>>),
                   RMul(votingHeaderSimilarity(data1, data2), <<35, 100>>),
                   RMul(votingSegmentSimilarity(data1, data2), <<35, 100>>),
                   RMul(votingFrequencySimilarity(data1, data2), <<15, 100>>) >>)

\* weights of lengthScore, headerSimilarity, segmentSimilarity, frequencySimilarity
votingWeights == << <<15, 100>>, <<35, 100>>, <<35, 100>>, <<15, 100>> >>

\* the four scores that are combined, in the order of their weights
votingScores(data1, data2) ==
  << votingLengthScore(data1, data2),
     votingHeaderSimilarity(data1, data2),
     votingSegmentSimilarity(data1, data2),
     votingFrequencySimilarity(data1, data2) >>

combinedScore(data1, data2) == weighted(votingScores(data1, data2), votingWeights)

\* registeredFace.length and currentFace.length are read for the log before
\* anything else; isValidImage calls startsWith on each face it is given
\* (not on currentFace when registeredFace is invalid)
calculateVotingFaceSimilarityThrows(registeredFace, currentFace) ==
  \/ LengthThrows(registeredFace)
  \/ LengthThrows(currentFace)
  \/ /\ registeredFace # currentFace
     /\ \/ MethodThrows(registeredFace)
        \/ isValidImage(registeredFace) /\ MethodThrows(currentFace)

calculateVotingFaceSimilarity(registeredFace, currentFace) ==
  IF registeredFace = currentFace THEN One
  ELSE IF ~isValidImage(registeredFace) \/ ~isValidImage(currentFace) THEN Zero
  ELSE combinedScore(getBase64(registeredFace), getBase64(currentFace))

\* the threshold the source comments name as the earlier one ("was 0.75")
VERIFY_THRESHOLD_BEFORE == <<75, 100>>

\* verification threshold (60% similarity)
VERIFY_THRESHOLD == <<60, 100>>

verifyFaceMatch(registeredFace, currentFace) ==
  LET similarity == calculateVotingFaceSimilarity(registeredFace, currentFace)
  IN  RGe(similarity, VERIFY_THRESHOLD)

\* compareFaceImages, the comparison of the context that simulates face
\* recognition: identical strings match, strings that are not data URLs do
\* not, and any other pair matches when Math.random() exceeds a threshold.
\* Math.random() returns a number of [0, 1)
RandomNumbers == {<<0, 1>>, <<3, 10>>, <<1, 2>>, <<9, 10>>}

\* matchScore > threshold
SIMULATED_THRESHOLD == <<3, 10>>

isValidBase64Image(data) == data.kind = "string" /\ data.prefix /\ data.marker

compareFaceImages(registeredFaceData, currentFaceData, matchScore) ==
  IF registeredFaceData = currentFaceData THEN TRUE
  ELSE IF ~isValidBase64Image(registeredFaceData) \/ ~isValidBase64Image(currentFaceData)
    THEN FALSE
  ELSE RGt(matchScore, SIMULATED_THRESHOLD)

(***************************************************************************)
(* calculateVotingFaceSimilarity as it is computed: every number is a      *)
(* double, every operation rounds to the nearest double (ties to even),    *)
(* and the frequency terms are added in the iteration order of             *)
(* new Set([...Object.keys(freq1), ...Object.keys(freq2)]).  The           *)
(* significand is scaled down from 53 bits; an even number of bits keeps   *)
(* the direction in which 1/3 and 2/3 are rounded.                         *)
(***************************************************************************)
SIGNIFICAND_BITS == 8

\* the exponent e with 2^(bits-1) <= n/d * 2^e, for 0 < n/d < 2^bits
RECURSIVE DoubleExponent(_, _, _)
DoubleExponent(n, d, e) ==
  IF n * IPow(2, e) >= d * IPow(2, SIGNIFICAND_BITS - 1) THEN e
  ELSE DoubleExponent(n, d, e + 1)

\* the double nearest to q, for 0 <= q < 2^bits
ToDouble(q) ==
  IF IsNaN(q) THEN NaN
  ELSE IF q[1] = 0 THEN Zero
  ELSE LET e == DoubleExponent(q[1], q[2], 0)
           scaled == q[1] * IPow(2, e)
           below == scaled \div q[2]
           rest == scaled % q[2]
           significand == IF 2 * rest > q[2] \/ (2 * rest = q[2] /\ below % 2 = 1)
                            THEN below + 1 ELSE below
       IN  R(significand, IPow(2, e))

DAdd(a, b) == ToDouble(RAdd(a, b))

DMul(a, b) == ToDouble(RMul(a, b))

\* a / b for integers a and b
DDiv(a, b) == ToDouble(RDiv(a, b))

\* s[1] + s[2] + ... added from the left, starting from 0
RECURSIVE DSum(_)
DSum(s) ==
  IF s = <<>> THEN Zero
  ELSE DAdd(DSum(SubSeq(s, 1, Len(s) - 1)), s[Len(s)])

\* the characters of s without repetitions, in the order of their first occurrence
RECURSIVE InsertionOrder(_)
InsertionOrder(s) ==
  IF s = <<>> THEN <<>>
  ELSE LET before == InsertionOrder(SubSeq(s, 1, Len(s) - 1))
       IN  IF \E k \in 1..Len(before) : before[k] = s[Len(s)] THEN before ELSE Append(before, s[Len(s)])

\* Object.keys(getCharFrequency(str)): the characters sampled, in the order
\* in which freq got them (no character of the alphabet is an array index)
frequencyKeys(str) ==
  InsertionOrder([k \in 1..((Len(str) + FREQ_STRIDE - 1) \div FREQ_STRIDE) |->
                    str[(k - 1) * FREQ_STRIDE + 1]])

doubleLengthScore(data1, data2) ==
  LET lengthRatio == DDiv(Min2(Len(data1), Len(data2)), Max2(Len(data1), Len(data2)))
  IN  IF RLt(lengthRatio, ToDouble(<<7, 10>>)) THEN ToDouble(<<3, 10>>) ELSE lengthRatio

doubleHeaderSimilarity(data1, data2) ==
  LET headerLength == Min2(VOTING_HEADER, Min2(Len(data1), Len(data2)))
  IN  DDiv(Matches(data1, data2, headerLength), headerLength)

doubleSegmentSimilarity(data1, data2) ==
  LET minLen == Min2(Len(data1), Len(data2))
      segmentSize == minLen \div numSegments
      segmentSim(i) ==
        LET start == i * segmentSize
            end == Min2(start + segmentSize, minLen)
            segment1 == Substring(data1, start, end)
            segment2 == Substring(data2, start, end)
            segmentLength == Min2(Len(segment1), Len(segment2))
        IN  IF segmentLength > 0
              THEN DDiv(Matches(segment1, segment2, segmentLength), segmentLength)
              ELSE Zero
      totalSegmentSimilarity == DSum([i \in 1..numSegments |-> segmentSim(i - 1)])
  IN  DDiv(totalSegmentSimilarity[1], totalSegmentSimilarity[2] * numSegments)

doubleFrequencySimilarity(data1, data2) ==
  LET freq1 == getCharFrequency(data1)
      freq2 == getCharFrequency(data2)
      allChars == InsertionOrder(frequencyKeys(data1) \o frequencyKeys(data2))
      term(c) == DDiv(Min2(freq1[c], freq2[c]), Max2(freq1[c], freq2[c]))
      frequencyScore == DSum([k \in 1..Len(allChars) |-> term(allChars[k])])
  IN  IF Len(allChars) > 0
        THEN DDiv(frequencyScore[1], frequencyScore[2] * Len(allChars))
        ELSE Zero

\* lengthScore * 0.15 + headerSimilarity * 0.35 + segmentSimilarity * 0.35
\* + frequencySimilarity * 0.15
doubleCombinedScore(data1, data2) ==
  DSum(<< DMul(doubleLengthScore(data1, data2), ToDouble(<<15, 100>>)),
          DMul(doubleHeaderSimilarity(data1, data2), ToDouble(<<35, 100>>)),
          DMul(doubleSegmentSimilarity(data1, data2), ToDouble(<<35, 100>>)),
          DMul(doubleFrequencySimilarity(data1, data2), ToDouble(<<15, 100>>)) >>)

\* the value calculateVotingFaceSimilarity returns for two strings
doubleVotingFaceSimilarity(registeredFace, currentFace) ==
  IF registeredFace = currentFace THEN One
  ELSE IF ~isValidImage(registeredFace) \/ ~isValidImage(currentFace) THEN Zero
  ELSE doubleCombinedScore(getBase64(registeredFace), getBase64(currentFace))

(***************************************************************************)
(* utils/faceVerification: calculateVotingFaceSimilarity and verifyFaceMatch *)
(* (the scorer "for practical voting"; names are qualified where the       *)
(* context has a function of the same name)                                *)
(***************************************************************************)
\* data.length > 15000
PRACTICAL_MIN_LENGTH == 2

\* sampleSize = Math.min(8000, ...): shorter than any valid payload
PATTERN_SAMPLE == 4

\* sections = 20
PATTERN_SECTIONS == 2

\* windowSize = 150, stride = 100, maxWindows = 30: the cap on the number of
\* windows is reached before the end of any valid payload
WINDOW_SIZE == 2

WINDOW_STRIDE == 1

MAX_WINDOWS == 2

\* for (let offset = 0; offset <= 50 && offset < minLength; offset += 25)
OFFSET_LIMIT == 2

OFFSET_STEP == 1

\* data.substring(0, Math.min(15000, data.length))
STATS_SAMPLE == 4

faceVerification_isValidImage(data) ==
  data.kind = "string" /\ data.prefix /\ data.marker /\ StrLen(data) > PRACTICAL_MIN_LENGTH

\* Math.max(0.70, 1 - lengthDiff / avgLength)
practicalLengthSimilarity(data1, data2) ==
  LET lengthDiff == Abs(Len(data1) - Len(data2))
      avgLength == R(Len(data1) + Len(data2), 2)
  IN  RMax(<<7, 10>>, RSub(One, RQuot(<<lengthDiff, 1>>, avgLength)))

\* sectionSimilarity / allChars.size of one section: the mean over the
\* characters of either section of min(f1, f2) / max(f1, f2)
sectionFrequencySimilarity(section1, section2) ==
  LET allChars == CharSet(section1) \cup CharSet(section2)
      RECURSIVE sectionSimilarity(_)
      sectionSimilarity(S) ==
        IF S = {} THEN Zero
        ELSE LET char == CHOOSE x \in S : TRUE
             IN  RAdd(RDiv(Min2(Count(section1, char), Count(section2, char)),
                           Max2(Count(section1, char), Count(section2, char))),
                      sectionSimilarity(S \ {char}))
  IN  RQuot(sectionSimilarity(allChars), <<Cardinality(allChars), 1>>)

analyzeImagePatterns(data1, data2) ==
  LET minLen == Min2(Len(data1), Len(data2))
      sampleSize == Min2(PATTERN_SAMPLE, minLen)
      sectionSize == sampleSize \div PATTERN_SECTIONS
      \* if (start >= Math.min(data1.length, data2.length)) break
      validSections == Cardinality({i \in 0..(PATTERN_SECTIONS - 1) : i * sectionSize < minLen})
      ofSection(i) ==
        LET start == i * sectionSize
            end == start + sectionSize
        IN  sectionFrequencySimilarity(Substring(data1, start, Min2(end, Len(data1))),
                                       Substring(data2, start, Min2(end, Len(data2))))
      totalSimilarity == RSum([k \in 1..validSections |-> ofSection(k - 1)])
  IN  IF validSections > 0 THEN RQuot(totalSimilarity, <<validSections, 1>>) ELSE Zero

\* (matches + partialMatches * 0.5) / windowSize of the windows at i
practicalWindowScore(data1, data2, i) ==
  LET matches == Cardinality({j \in 1..WINDOW_SIZE : data1[i + j] = data2[i + j]})
      partialMatches ==
        Cardinality({j \in 1..WINDOW_SIZE :
                       /\ data1[i + j] # data2[i + j]
                       /\ Abs(CharCode[data1[i + j]] - CharCode[data2[i + j]]) <= 2})
  IN  R(2 * matches + partialMatches, 2 * WINDOW_SIZE)

\* the window starts of one offset: i = offset, offset + stride, ... while
\* i < maxLength - windowSize
RECURSIVE windowStarts(_, _)
windowStarts(i, maxLength) ==
  IF i < maxLength - WINDOW_SIZE
    THEN <<i>> \o windowStarts(i + WINDOW_STRIDE, maxLength)
    ELSE <<>>

\* the window starts of all offsets, in the order of the two loops
RECURSIVE startsFromOffset(_, _)
startsFromOffset(offset, minLength) ==
  IF offset <= OFFSET_LIMIT /\ offset < minLength
    THEN windowStarts(offset, minLength) \o startsFromOffset(offset + OFFSET_STEP, minLength)
    ELSE <<>>

RECURSIVE RMaxOf(_)
RMaxOf(scores) == IF scores = <<>> THEN Zero ELSE RMax(scores[1], RMaxOf(Tail(scores)))

enhancedSlidingWindow(data1, data2) ==
  LET minLength == Min2(Len(data1), Len(data2))
      starts == startsFromOffset(0, minLength)
      \* windowCount < maxWindows
      windowCount == Min2(Len(starts), MAX_WINDOWS)
      scores == [k \in 1..windowCount |-> practicalWindowScore(data1, data2, starts[k])]
      avgScore == IF windowCount > 0 THEN RQuot(RSum(scores), <<windowCount, 1>>) ELSE Zero
  IN  RAdd(RMul(avgScore, <<7, 10>>), RMul(RMaxOf(scores), <<3, 10>>))

\* { mean, variance, freqMean } of the char codes of the sample
getStats(data) ==
  LET sample == Substring(data, 0, Min2(STATS_SAMPLE, Len(data)))
      values == [k \in 1..Len(sample) |-> CharCode[sample[k]]]
      mean == R(SumSeq(values), Len(values))
      variance ==
        RQuot(RSum([k \in 1..Len(values) |->
                      RMul(RSub(<<values[k], 1>>, mean), RSub(<<values[k], 1>>, mean))]),
              <<Len(values), 1>>)
  IN  [mean |-> mean, variance |-> IF Len(values) = 0 THEN NaN ELSE variance,
       freqMean |-> R(Len(values), Cardinality(CharSet(sample)))]

\* Math.max(0.5, 1 - |a - b| / Math.max(a, b)), the quotient kept to three
\* decimals
practicalStatSimilarity(a, b) ==
  RMax(<<1, 2>>, RoundMilli(RSub(One, RQuot(RAbs(RSub(a, b)), RMax(a, b)))))

enhancedStatisticalFingerprint(data1, data2) ==
  LET stats1 == getStats(data1)
      stats2 == getStats(data2)
  IN  RMul(RSum(<< practicalStatSimilarity(stats1.mean, stats2.mean),
                   practicalStatSimilarity(stats1.variance, stats2.variance),
                   practicalStatSimilarity(stats1.freqMean, stats2.freqMean) >>),
           <<1, 3>>)

\* weights: length, pattern, slidingWindow, statistical
practicalWeights == << <<10, 100>>, <<45, 100>>, <<30, 100>>, <<15, 100>> >>

practicalScores(data1, data2) ==
  << practicalLengthSimilarity(data1, data2),
     analyzeImagePatterns(data1, data2),
     enhancedSlidingWindow(data1, data2),
     enhancedStatisticalFingerprint(data1, data2) >>

faceVerification_calculateVotingFaceSimilarity(registeredFace, currentFace) ==
  IF registeredFace = currentFace THEN One
  ELSE IF ~faceVerification_isValidImage(registeredFace)
            \/ ~faceVerification_isValidImage(currentFace) THEN Zero
  ELSE weighted(practicalScores(getBase64(registeredFace), getBase64(currentFace)),
                practicalWeights)

\* threshold = 0.60
PRACTICAL_THRESHOLD == <<3, 5>>

faceVerification_verifyFaceMatch(registeredFace, currentFace) ==
  LET similarity == faceVerification_calculateVotingFaceSimilarity(registeredFace, currentFace)
  IN  RGe(similarity, PRACTICAL_THRESHOLD)

(***************************************************************************)
(* utils/faceVerification: calculateStrictVotingFaceSimilarity and the     *)
(* calculateMaximumSecurityFaceSimilarity that returns its score           *)
(***************************************************************************)
\* data.length > 10000
STRICT_MIN_LENGTH == 2

\* sampleSize = Math.min(15000, ...), sections = 30
STRICT_SAMPLE == 4

STRICT_SECTIONS == 2

\* windowSize = 100, stride = 50, maxWindows = 40: the cap on the number of
\* windows is reached before the end of any valid payload
STRICT_WINDOW_SIZE == 2

STRICT_WINDOW_STRIDE == 1

STRICT_MAX_WINDOWS == 2

\* data.substring(0, Math.min(20000, data.length))
STRICT_STATS_SAMPLE == 5

strictIsValidImage(data) ==
  data.kind = "string" /\ data.prefix /\ data.marker /\ StrLen(data) > STRICT_MIN_LENGTH

\* Math.max(0.5, 1 - lengthDiff / avgLength)
strictLengthSimilarity(data1, data2) ==
  LET lengthDiff == Abs(Len(data1) - Len(data2))
      avgLength == R(Len(data1) + Len(data2), 2)
  IN  RMax(<<1, 2>>, RSub(One, RQuot(<<lengthDiff, 1>>, avgLength)))

\* analyzeImagePatterns of the strict scorer: the mean over the sections of
\* exactMatches / minLength
strictImagePatterns(data1, data2) ==
  LET minLen == Min2(Len(data1), Len(data2))
      sampleSize == Min2(STRICT_SAMPLE, minLen)
      sectionSize == sampleSize \div STRICT_SECTIONS
      \* if (start >= Math.min(data1.length, data2.length)) break
      validSections == Cardinality({i \in 0..(STRICT_SECTIONS - 1) : i * sectionSize < minLen})
      ofSection(i) ==
        LET start == i * sectionSize
            end == start + sectionSize
            section1 == Substring(data1, start, Min2(end, Len(data1)))
            section2 == Substring(data2, start, Min2(end, Len(data2)))
            minLength == Min2(Len(section1), Len(section2))
        IN  RDiv(Matches(section1, section2, minLength), minLength)
      totalSimilarity == RSum([k \in 1..validSections |-> ofSection(k - 1)])
  IN  IF validSections > 0 THEN RQuot(totalSimilarity, <<validSections, 1>>) ELSE Zero

\* for (let i = 0; i < maxLength - windowSize && windowCount < maxWindows; i += stride)
RECURSIVE strictWindowStarts(_, _)
strictWindowStarts(i, maxLength) ==
  IF i < maxLength - STRICT_WINDOW_SIZE
    THEN <<i>> \o strictWindowStarts(i + STRICT_WINDOW_STRIDE, maxLength)
    ELSE <<>>

strictSlidingWindow(data1, data2) ==
  LET starts == strictWindowStarts(0, Min2(Len(data1), Len(data2)))
      windowCount == Min2(Len(starts), STRICT_MAX_WINDOWS)
      windowScore(i) ==
        R(Cardinality({j \in 1..STRICT_WINDOW_SIZE : data1[i + j] = data2[i + j]}),
          STRICT_WINDOW_SIZE)
      scores == [k \in 1..windowCount |-> windowScore(starts[k])]
      avgScore == IF windowCount > 0 THEN RQuot(RSum(scores), <<windowCount, 1>>) ELSE Zero
  IN  RAdd(RMul(avgScore, <<6, 10>>), RMul(RMaxOf(scores), <<4, 10>>))

\* { mean, variance } of the char codes of the sample
strictGetStats(data) ==
  LET sample == Substring(data, 0, Min2(STRICT_STATS_SAMPLE, Len(data)))
      values == [k \in 1..Len(sample) |-> CharCode[sample[k]]]
      mean == R(SumSeq(values), Len(values))
      variance ==
        RQuot(RSum([k \in 1..Len(values) |->
                      RMul(RSub(<<values[k], 1>>, mean), RSub(<<values[k], 1>>, mean))]),
              <<Len(values), 1>>)
  IN  [mean |-> mean, variance |-> IF Len(values) = 0 THEN NaN ELSE variance]

\* Math.max(0.3, 1 - |a - b| / Math.max(a, b)), the quotient kept to three
\* decimals
strictStatSimilarity(a, b) ==
  RMax(<<3, 10>>, RoundMilli(RSub(One, RQuot(RAbs(RSub(a, b)), RMax(a, b)))))

strictStatisticalFingerprint(data1, data2) ==
  LET stats1 == strictGetStats(data1)
      stats2 == strictGetStats(data2)
  IN  RMul(RAdd(strictStatSimilarity(stats1.mean, stats2.mean),
                strictStatSimilarity(stats1.variance, stats2.variance)),
           <<1, 2>>)

\* weights: length, pattern, slidingWindow, statistical
strictWeights == << <<15, 100>>, <<50, 100>>, <<25, 100>>, <<10, 100>> >>

strictScores(data1, data2) ==
  << strictLengthSimilarity(data1, data2),
     strictImagePatterns(data1, data2),
     strictSlidingWindow(data1, data2),
     strictStatisticalFingerprint(data1, data2) >>

calculateStrictVotingFaceSimilarity(registeredFace, currentFace) ==
  IF registeredFace = currentFace THEN One
  ELSE IF ~strictIsValidImage(registeredFace) \/ ~strictIsValidImage(currentFace) THEN Zero
  ELSE weighted(strictScores(getBase64(registeredFace), getBase64(currentFace)), strictWeights)

\* "For now, use the strict voting similarity for consistency"
faceVerification_calculateMaximumSecurityFaceSimilarity(face1, face2) ==
  calculateStrictVotingFaceSimilarity(face1, face2)

(***************************************************************************)
(* isFaceAlreadyRegistered (duplicate-enrollment guard)                    *)
(***************************************************************************)
\* the threshold of the variant in src/unnamed/part_009
DUPLICATE_THRESHOLD_OF_VARIANT == <<75, 100>>

DUPLICATE_THRESHOLD == <<35, 100>>

\* index of the last TRUE of a sequence of booleans, 0 if there is none
LastTrue(hits) ==
  IF \E i \in 1..Len(hits) : hits[i]
    THEN CHOOSE i \in 1..Len(hits) : hits[i] /\ \A j \in (i + 1)..Len(hits) : ~hits[j]
    ELSE 0

\* index of the first TRUE of a sequence of booleans, 0 if there is none
FirstTrue(hits) ==
  IF \E i \in 1..Len(hits) : hits[i]
    THEN CHOOSE i \in 1..Len(hits) : hits[i] /\ \A j \in 1..(i - 1) : ~hits[j]
    ELSE 0

\* the result of the guard without its exact-match layer
duplicateReportWithoutExactLayer(qualityCheck, exactMatch, similarMatch) ==
  IF ~qualityCheck.isValid
    THEN [isDuplicate |-> FALSE, existingVoter |-> 0,
          details |-> "Face image quality insufficient"]
  ELSE IF similarMatch # 0
    THEN [isDuplicate |-> TRUE, existingVoter |-> similarMatch,
          details |-> "Maximum security face similarity exceeds threshold"]
  ELSE [isDuplicate |-> FALSE, existingVoter |-> 0,
        details |-> "No duplicate face patterns detected"]

\* the result of the three layers: quality, exact match, similarity.
\* existingVoter is the position in existingVoters of the record reported
\* (0 when the source leaves existingVoter undefined)
duplicateReport(qualityCheck, exactMatch, similarMatch) ==
  IF ~qualityCheck.isValid
    THEN [isDuplicate |-> FALSE, existingVoter |-> 0,
          details |-> "Face image quality insufficient"]
  ELSE IF exactMatch # 0
    THEN [isDuplicate |-> TRUE, existingVoter |-> exactMatch,
          details |-> "Exact face image match found"]
  ELSE IF similarMatch # 0
    THEN [isDuplicate |-> TRUE, existingVoter |-> similarMatch,
          details |-> "Maximum security face similarity exceeds threshold"]
  ELSE [isDuplicate |-> FALSE, existingVoter |-> 0,
        details |-> "No duplicate face patterns detected"]

\* console.log(`New face data length: ${newFaceData.length}`)
isFaceAlreadyRegisteredThrows(newFaceData) == LengthThrows(newFaceData)

isFaceAlreadyRegistered(newFaceData, existingVoters) ==
  duplicateReport(
    validateFaceImageQuality(newFaceData),
    FirstTrue([i \in 1..Len(existingVoters) |-> existingVoters[i].faceData = newFaceData]),
    FirstTrue([i \in 1..Len(existingVoters) |->
                 RGe(calculateMaximumSecurityFaceSimilarity(newFaceData,
                                                            existingVoters[i].faceData),
                     DUPLICATE_THRESHOLD)]))

(***************************************************************************)
(* utils/duplicateDetection: isFaceAlreadyRegistered                       *)
(***************************************************************************)
MAXIMUM_SECURITY_THRESHOLD == <<45, 100>>

\* if (similarity >= 0.35) ... if (sizeVariation < 0.05 && similarity >= 0.40)
EXTRA_VALIDATION_THRESHOLD == <<35, 100>>

SUSPECTED_THRESHOLD == <<40, 100>>

SIZE_VARIATION_LIMIT == <<5, 100>>

\* sizeDiff / avgSize of the two strings
sizeVariation(faceData, existingFaceData) ==
  LET sizeDiff == Abs(StrLen(faceData) - StrLen(existingFaceData))
      avgSize == R(StrLen(faceData) + StrLen(existingFaceData), 2)
  IN  RQuot(<<sizeDiff, 1>>, avgSize)

\* the loop body that applies the first threshold only
returnedOverThresholdOnly(similarity, variation) ==
  RGe(similarity, MAXIMUM_SECURITY_THRESHOLD)

\* one pass of the loop body: the record is returned as a duplicate
returnedAsDuplicate(similarity, variation) ==
  \/ RGe(similarity, MAXIMUM_SECURITY_THRESHOLD)
  \/ /\ RGe(similarity, EXTRA_VALIDATION_THRESHOLD)
     /\ RLt(variation, SIZE_VARIATION_LIMIT)
     /\ RGe(similarity, SUSPECTED_THRESHOLD)

\* the report for the first record returned, 0 for none (existingVoter: null)
duplicateDetectionReport(similarities, found) ==
  IF found # 0
    THEN [isDuplicate |-> TRUE, existingVoter |-> found, similarity |-> similarities[found]]
    ELSE [isDuplicate |-> FALSE, existingVoter |-> 0, similarity |-> Zero]

duplicateDetection_isFaceAlreadyRegistered(faceData, voters_) ==
  LET similarities ==
        [i \in 1..Len(voters_) |->
           faceVerification_calculateMaximumSecurityFaceSimilarity(faceData, voters_[i].faceData)]
  IN  duplicateDetectionReport(
        similarities,
        FirstTrue([i \in 1..Len(voters_) |->
                     returnedAsDuplicate(similarities[i],
                                         sizeVariation(faceData, voters_[i].faceData))]))

(***************************************************************************)
(* Strings of the voting context: characters, identifiers, names           *)
(***************************************************************************)
Digits == {"0", "1", "2", "3", "4", "5", "6", "7", "8", "9"}

UpperCase == << "A", "B", "C", "D", "E", "F", "G", "H", "I", "J", "K", "L", "M",
                "N", "O", "P", "Q", "R", "S", "T", "U", "V", "W", "X", "Y", "Z" >>

LowerCase == << "a", "b", "c", "d", "e", "f", "g", "h", "i", "j", "k", "l", "m",
                "n", "o", "p", "q", "r", "s", "t", "u", "v", "w", "x", "y", "z" >>

Letters == {UpperCase[i] : i \in 1..26} \cup {LowerCase[i] : i \in 1..26}

\* the string of n characters c
Rep(c, n) == [i \in 1..n |-> c]

\* s.toLowerCase()
toLowerCase(s) ==
  [i \in 1..Len(s) |->
     IF \E k \in 1..26 : UpperCase[k] = s[i]
       THEN LowerCase[CHOOSE k \in 1..26 : UpperCase[k] = s[i]]
       ELSE s[i]]

\* s.trim()
RECURSIVE trim(_)
trim(s) ==
  IF s = <<>> THEN s
  ELSE IF Head(s) = " " THEN trim(Tail(s))
  ELSE IF s[Len(s)] = " " THEN trim(SubSeq(s, 1, Len(s) - 1))
  ELSE s

VOTER_ID_LENGTH == 10

AADHAAR_LENGTH == 12

validateVoterIdFormat(voterId) ==
  IF Len(voterId) # VOTER_ID_LENGTH THEN FALSE
  ELSE LET firstChar == voterId[1]
           lastChar == voterId[VOTER_ID_LENGTH]
       IN  firstChar \in Letters /\ lastChar \in Digits

\* /^\d{12}$/.test(aadhaarNumber)
validAadhaarFormat(aadhaarNumber) ==
  Len(aadhaarNumber) = AADHAAR_LENGTH /\ \A i \in 1..AADHAAR_LENGTH : aadhaarNumber[i] \in Digits

(***************************************************************************)
(* The voting context (VotingProvider)                                     *)
(*                                                                         *)
(* A voter record carries the fields of the Voter interface that the       *)
(* context reads (address is only stored and is left out) and a serial     *)
(* number, which is not visible to the program and tells records apart     *)
(* even when their ids collide.  An iris capture is only ever measured, so *)
(* it is modelled by its length.  A handler reads the roster of the latest *)
(* render; every action is one call followed by the re-render.             *)
(***************************************************************************)
VARIABLES voters, candidates, isAdminAuthenticated, now, nextSerial, accepted, marked, last,
          ui, probe

vars == <<voters, candidates, isAdminAuthenticated, now, nextSerial, accepted, marked, last,
          ui, probe>>

\* the state outside the voting context: the vote-casting page (ui) and the
\* arguments and result of a function applied on its own (probe)
outside == <<ui, probe>>

\* the state of VotingProvider
context == <<voters, candidates, isAdminAuthenticated, now, nextSerial, accepted, marked, last>>

\* bounds
MaxVoters == 2

MaxRegistrations == 2

MaxCasts == 2

MaxCandidates == 3

MaxClock == 11

\* Date.now() at start-up
EPOCH == 10

IRIS_MIN_LENGTH == 2

\* inputs
FaceA == DataUrl(STD_HEAD, <<"/", "R", "i", "R">>)

FaceB == DataUrl(STD_HEAD, <<"R", "/", "/", "i">>)

FaceNearA == DataUrl(STD_HEAD, <<"/", "R", "/", "i">>)

FaceShort == DataUrl(STD_HEAD, <<"/", "R">>)

FaceInputs == {FaceA, FaceB, FaceNearA, FaceShort}

FaceNearerA == DataUrl(STD_HEAD, <<"/", "R", "i", "i">>)

FaceHalfA == DataUrl(STD_HEAD, <<"i", "R", "i", "/">>)

\* faces of enrolled records: registerVoter admits faces of valid quality,
\* updateVoter stores any faceData it is given
RosterFaces == FaceInputs \cup {FaceNearerA, FaceHalfA}

\* values that fail validation, one for each check of the validator, beside
\* the faces of the roster: a missing value, a value that is no string, the
\* empty string, a string that is no data URL, a data URL without the base64
\* marker, and payloads of low complexity, with no signature, of low entropy
UntrustedFaces ==
  RosterFaces \cup
    {UndefinedBlob, NonStringBlob, RawString(<<>>), RawString(<<"/", "R", "i", "R">>),
     NoMarker(<<"/", "R", "i", "R">>),
     DataUrl(STD_HEAD, <<"/", "R", "/", "R">>),
     DataUrl(STD_HEAD, <<"i", "i", "R", "/">>),
     DataUrl(STD_HEAD, <<"/", "R", "i", "i", "i">>)}

\* two people and their credentials
Asha == [name |-> <<"A", "s", "h", "a">>, aadhaarNumber |-> Rep("1", AADHAAR_LENGTH),
         voterId |-> <<"A">> \o Rep("0", VOTER_ID_LENGTH - 1)]

Ravi == [name |-> <<"R", "a", "v", "i">>, aadhaarNumber |-> Rep("2", AADHAAR_LENGTH),
         voterId |-> <<"B">> \o Rep("0", VOTER_ID_LENGTH - 1)]

\* the registration form of person p with the given captures
Form(p, face, iris) ==
  [name |-> p.name, aadhaarNumber |-> p.aadhaarNumber, voterId |-> p.voterId,
   faceData |-> face, irisData |-> iris]

\* well-formed forms with every face, and forms with one defect each: a voter id
\* that starts with a digit, an Aadhaar number of 11 digits, a missing or short
\* iris capture, and Ravi's form with Asha's Aadhaar number or voter id
VoterInputs ==
  {Form(p, face, IRIS_MIN_LENGTH) : p \in {Asha, Ravi}, face \in FaceInputs}
    \cup { [Form(Asha, FaceA, IRIS_MIN_LENGTH) EXCEPT !.voterId = Rep("7", VOTER_ID_LENGTH)],
           [Form(Asha, FaceA, IRIS_MIN_LENGTH) EXCEPT !.aadhaarNumber = Rep("1", AADHAAR_LENGTH - 1)],
           Form(Asha, FaceA, 0),
           Form(Asha, FaceA, IRIS_MIN_LENGTH - 1),
           [Form(Ravi, FaceB, IRIS_MIN_LENGTH) EXCEPT !.aadhaarNumber = Asha.aadhaarNumber],
           [Form(Ravi, FaceB, IRIS_MIN_LENGTH) EXCEPT !.voterId = Asha.voterId] }

\* the login form: a person's credentials as registered, Asha's with her name
\* spelled differently, and Asha's name with Ravi's numbers
LoginInputs ==
  { Asha, Ravi,
    [Asha EXCEPT !.name = <<" ", "a", "S", "H", "A", " ">>],
    [Ravi EXCEPT !.name = Asha.name] }

\* Partial<Omit<Voter, 'id'>>: a function from the fields present to their values
\* (the edit form of VoterManagement sends name, aadhaarNumber and voterId)
UpdateInputs ==
  { Ravi,
    [faceData |-> FaceNearA],
    [hasVoted |-> FALSE] }

CandidateInputs ==
  { [name |-> <<"N", "o", "t", "a">>, symbol |-> "white"],
    [name |-> <<"j", "o", "h", "n", " ">>, symbol |-> "green"] }

UNKNOWN_ID == 0

\* ids a caller may pass: those on the roster and one that is not
VoterIdArgs == {voters[i].id : i \in 1..Len(voters)} \cup {UNKNOWN_ID}

CandidateIdArgs == {candidates[i].id : i \in 1..Len(candidates)} \cup {UNKNOWN_ID}

\* the latest call: the operation, its result, and the serial number of the
\* record it was about (0 if none) with whether that record had ever had
\* hasVoted = true when the call was made
NoCall == [op |-> "none", success |-> FALSE, voter |-> 0, marked |-> FALSE, threw |-> FALSE]

\* the vote-casting page is not mounted
NoPage == [step |-> "unmounted"]

\* no function is being applied on its own
NoProbe == [phase |-> "none"]

\* the context as VotingProvider first renders it
ContextInit ==
  /\ voters = <<>>
  /\ candidates = << [id |-> 1, name |-> <<"J", "o", "h", "n">>, symbol |-> "blue", voteCount |-> 0],
                     [id |-> 2, name |-> <<"S", "a", "r", "a", "h">>, symbol |-> "red", voteCount |-> 0] >>
  /\ isAdminAuthenticated = FALSE
  /\ now = EPOCH
  /\ nextSerial = 1
  /\ accepted = [n \in 1..MaxRegistrations |-> 0]
  /\ marked = {}
  /\ last = NoCall

Init == ContextInit /\ ui = NoPage /\ probe = NoProbe

\* the elements of an array
Elements(seq) == {seq[i] : i \in 1..Len(seq)}

\* array.find(P) and array.findIndex(P), P given by the elements that satisfy
\* it: the position of the first such element, 0 when there is none
FirstIndex(seq, satisfying) == FirstTrue([i \in 1..Len(seq) |-> seq[i] \in satisfying])

findVoter(satisfying) == FirstIndex(voters, satisfying)

\* the serial number of the record at a position of the roster (0 for none)
SerialAt(position) == IF position = 0 THEN 0 ELSE voters[position].serial

\* the serial numbers of the records with the given id
SerialsWithId(voterId) == {voters[i].serial : i \in {j \in 1..Len(voters) : voters[j].id = voterId}}

\* the record of a call about the record at a position of the roster
Call(op, success, position) ==
  [op |-> op, success |-> success, voter |-> SerialAt(position),
   marked |-> SerialAt(position) \in marked, threw |-> FALSE]

\* registration that does not consult the duplicate-face check
registrationWithoutFaceCheck(voterData, faceQuality, duplicateAadhaar, duplicateVoterId, faceCheck) ==
  IF ~validateVoterIdFormat(voterData.voterId)
    THEN [success |-> FALSE, message |-> "Invalid Voter ID format"]
  ELSE IF ~validAadhaarFormat(voterData.aadhaarNumber)
    THEN [success |-> FALSE, message |-> "Invalid Aadhaar number"]
  ELSE IF ~faceQuality.isValid
    THEN [success |-> FALSE, message |-> "Face image quality is insufficient"]
  ELSE IF voterData.irisData = 0 \/ voterData.irisData < IRIS_MIN_LENGTH
    THEN [success |-> FALSE, message |-> "Iris scan quality is insufficient"]
  ELSE IF duplicateAadhaar # 0
    THEN [success |-> FALSE, message |-> "This Aadhaar number is already registered"]
  ELSE IF duplicateVoterId # 0
    THEN [success |-> FALSE, message |-> "This Voter ID is already registered"]
  ELSE [success |-> TRUE, message |-> "Voter registered successfully"]

registrationResult(voterData, faceQuality, duplicateAadhaar, duplicateVoterId, faceCheck) ==
  IF ~validateVoterIdFormat(voterData.voterId)
    THEN [success |-> FALSE, message |-> "Invalid Voter ID format"]
  ELSE IF ~validAadhaarFormat(voterData.aadhaarNumber)
    THEN [success |-> FALSE, message |-> "Invalid Aadhaar number"]
  ELSE IF ~faceQuality.isValid
    THEN [success |-> FALSE, message |-> "Face image quality is insufficient"]
  ELSE IF voterData.irisData = 0 \/ voterData.irisData < IRIS_MIN_LENGTH
    THEN [success |-> FALSE, message |-> "Iris scan quality is insufficient"]
  ELSE IF duplicateAadhaar # 0
    THEN [success |-> FALSE, message |-> "This Aadhaar number is already registered"]
  ELSE IF duplicateVoterId # 0
    THEN [success |-> FALSE, message |-> "This Voter ID is already registered"]
  ELSE IF faceCheck.isDuplicate /\ faceCheck.existingVoter # 0
    THEN [success |-> FALSE, message |-> "Duplicate face pattern detected"]
  ELSE [success |-> TRUE, message |-> "Voter registered successfully"]

\* the functions of a render close over that render's voters: roster
registerVoterOver(roster, voterData) ==
  LET sameAadhaar(v) == v.aadhaarNumber = voterData.aadhaarNumber
      sameVoterId(v) == v.voterId = voterData.voterId
  IN  registrationResult(voterData,
                         validateFaceImageQuality(voterData.faceData),
                         FirstIndex(roster, {v \in Elements(roster) : sameAadhaar(v)}),
                         FirstIndex(roster, {v \in Elements(roster) : sameVoterId(v)}),
                         isFaceAlreadyRegistered(voterData.faceData, roster))

registerVoter(voterData) == registerVoterOver(voters, voterData)

\* { ...voterData, id: Date.now().toString(), hasVoted: false }
newVoter(voterData) ==
  [id |-> now, serial |-> nextSerial, name |-> voterData.name,
   aadhaarNumber |-> voterData.aadhaarNumber, voterId |-> voterData.voterId,
   faceData |-> voterData.faceData, irisData |-> voterData.irisData, hasVoted |-> FALSE]

\* console.log('Face data length:', voterData.faceData.length)
registerVoterThrows(voterData) == LengthThrows(voterData.faceData)

\* the call returns its result and, on success, queues the new record; or it
\* throws at its log lines, before any validation
RegisterVoterCall(voterData, result) ==
  LET threw == registerVoterThrows(voterData)
      admitted == ~threw /\ result.success
  IN  /\ voters' = IF admitted THEN Append(voters, newVoter(voterData)) ELSE voters
      /\ nextSerial' = IF admitted THEN nextSerial + 1 ELSE nextSerial
      /\ last' = [op |-> "registerVoter", success |-> admitted,
                  voter |-> IF admitted THEN nextSerial ELSE 0, marked |-> FALSE,
                  threw |-> threw]

RegisterVoter ==
  /\ Len(voters) < MaxVoters
  /\ nextSerial <= MaxRegistrations
  /\ \E voterData \in VoterInputs : RegisterVoterCall(voterData, registerVoter(voterData))
  /\ UNCHANGED <<candidates, isAdminAuthenticated, now, accepted, marked, outside>>

\* registerVoter called with either of the two values under examination as
\* the face capture, whatever their type
RegisterUntrusted ==
  /\ Len(voters) < MaxVoters
  /\ nextSerial <= MaxRegistrations
  /\ \E p \in {Asha, Ravi}, face \in {probe.face1, probe.face2} :
       RegisterVoterCall(Form(p, face, IRIS_MIN_LENGTH),
                         registerVoter(Form(p, face, IRIS_MIN_LENGTH)))
  /\ UNCHANGED <<candidates, isAdminAuthenticated, now, accepted, marked, outside>>

\* { ...v, ...updates }
Merge(v, updates) == [f \in DOMAIN v |-> IF f \in DOMAIN updates THEN updates[f] ELSE v[f]]

\* updates.field is present and truthy (a non-empty string)
Given(updates, field) == field \in DOMAIN updates /\ Len(updates[field]) > 0

voterUpdateResult(voterIndex, updates, duplicateVoter) ==
  IF voterIndex = 0
    THEN [success |-> FALSE, message |-> "Voter not found"]
  ELSE IF (Given(updates, "aadhaarNumber") \/ Given(updates, "voterId")) /\ duplicateVoter # 0
    THEN [success |-> FALSE, message |-> "Aadhaar number or Voter ID already exists"]
  ELSE [success |-> TRUE, message |-> "Voter information updated successfully"]

updateVoter(voterId, updates) ==
  LET hasId(v) == v.id = voterId
      duplicate(v) ==
        /\ v.id # voterId
        /\ \/ Given(updates, "aadhaarNumber") /\ v.aadhaarNumber = updates.aadhaarNumber
           \/ Given(updates, "voterId") /\ v.voterId = updates.voterId
  IN  voterUpdateResult(findVoter({v \in Elements(voters) : hasId(v)}), updates, findVoter({v \in Elements(voters) : duplicate(v)}))

UpdateVoterCall(voterId, updates, result, found) ==
  /\ voters' = IF result.success
                 THEN [i \in 1..Len(voters) |->
                         IF voters[i].id = voterId THEN Merge(voters[i], updates) ELSE voters[i]]
                 ELSE voters
  /\ marked' = IF result.success /\ "hasVoted" \in DOMAIN updates /\ updates.hasVoted
                 THEN marked \cup SerialsWithId(voterId)
                 ELSE marked
  /\ last' = Call("updateVoter", result.success, found)

UpdateVoter ==
  /\ \E voterId \in VoterIdArgs, updates \in UpdateInputs :
       LET hasId(v) == v.id = voterId
       IN  UpdateVoterCall(voterId, updates, updateVoter(voterId, updates), findVoter({v \in Elements(voters) : hasId(v)}))
  /\ UNCHANGED <<candidates, isAdminAuthenticated, now, nextSerial, accepted, outside>>

voterDeleteResult(voter) ==
  IF voter = 0
    THEN [success |-> FALSE, message |-> "Voter not found"]
    ELSE [success |-> TRUE, message |-> "Voter deleted successfully"]

deleteVoter(voterId) ==
  LET hasId(v) == v.id = voterId
  IN  voterDeleteResult(findVoter({v \in Elements(voters) : hasId(v)}))

\* prev.filter(v => v.id !== voterId)
RECURSIVE withoutId(_, _)
withoutId(roster, voterId) ==
  IF roster = <<>> THEN <<>>
  ELSE IF Head(roster).id = voterId THEN withoutId(Tail(roster), voterId)
  ELSE <<Head(roster)>> \o withoutId(Tail(roster), voterId)

DeleteVoterCall(voterId, result, found) ==
  /\ voters' = IF result.success THEN withoutId(voters, voterId) ELSE voters
  /\ last' = Call("deleteVoter", result.success, found)

DeleteVoter ==
  /\ \E voterId \in VoterIdArgs :
       LET hasId(v) == v.id = voterId
       IN  DeleteVoterCall(voterId, deleteVoter(voterId), findVoter({v \in Elements(voters) : hasId(v)}))
  /\ UNCHANGED <<candidates, isAdminAuthenticated, now, nextSerial, accepted, marked, outside>>

\* the record that the credentials of a login name, 0 if none does
\* the functions of a render close over that render's voters: roster
claimedVoterOver(roster, aadhaar, voterId, name) ==
  LET credentials(v) ==
        /\ v.aadhaarNumber = aadhaar
        /\ v.voterId = voterId
        /\ trim(toLowerCase(v.name)) = trim(toLowerCase(name))
  IN  FirstIndex(roster, {e \in Elements(roster) : credentials(e)})

claimedVoter(aadhaar, voterId, name) == claimedVoterOver(voters, aadhaar, voterId, name)

\* a verification that also requires a stored iris capture of the minimum length
verificationRequiringIris(roster, voter, faceData) ==
  IF voter = 0
    THEN [success |-> FALSE, message |-> "Voter details not found", voter |-> 0]
  ELSE IF roster[voter].hasVoted
    THEN [success |-> FALSE, message |-> "You have already cast your vote", voter |-> 0]
  ELSE IF ~verifyFaceMatch(roster[voter].faceData, faceData)
    THEN [success |-> FALSE, message |-> "Face verification failed", voter |-> 0]
  ELSE IF roster[voter].irisData < IRIS_MIN_LENGTH
    THEN [success |-> FALSE, message |-> "Iris verification failed", voter |-> 0]
  ELSE [success |-> TRUE, message |-> "Identity verified successfully", voter |-> voter]

\* a verification that compares the faces before it looks at hasVoted
verificationComparingFirst(roster, voter, faceData) ==
  IF voter = 0
    THEN [success |-> FALSE, message |-> "Voter details not found", voter |-> 0]
  ELSE IF ~verifyFaceMatch(roster[voter].faceData, faceData)
    THEN [success |-> FALSE, message |-> "Face verification failed", voter |-> 0]
  ELSE IF roster[voter].hasVoted
    THEN [success |-> FALSE, message |-> "You have already cast your vote", voter |-> 0]
  ELSE [success |-> TRUE, message |-> "Identity verified successfully", voter |-> voter]

\* voter is the position on the roster of the record returned (0 when none is)
verificationResult(roster, voter, faceData) ==
  IF voter = 0
    THEN [success |-> FALSE, message |-> "Voter details not found", voter |-> 0]
  ELSE IF roster[voter].hasVoted
    THEN [success |-> FALSE, message |-> "You have already cast your vote", voter |-> 0]
  ELSE IF ~verifyFaceMatch(roster[voter].faceData, faceData)
    THEN [success |-> FALSE, message |-> "Face verification failed", voter |-> 0]
  ELSE [success |-> TRUE, message |-> "Identity verified successfully", voter |-> voter]

verifyVoterOver(roster, aadhaar, voterId, name, faceData) ==
  verificationResult(roster, claimedVoterOver(roster, aadhaar, voterId, name), faceData)

verifyVoter(aadhaar, voterId, name, faceData) ==
  verifyVoterOver(voters, aadhaar, voterId, name, faceData)

\* verifyFaceMatch(voter.faceData, faceData) is reached for a record that is
\* found and has not voted, and throws when the scorer does
verifyVoterThrows(aadhaar, voterId, name, faceData) ==
  LET voter == claimedVoter(aadhaar, voterId, name)
  IN  /\ voter # 0
      /\ ~voters[voter].hasVoted
      /\ calculateVotingFaceSimilarityThrows(voters[voter].faceData, faceData)

\* the call returns its result or throws; it sets no state
VerifyVoterCall(threw, result, found) ==
  last' = [Call("verifyVoter", ~threw /\ result.success, found) EXCEPT !.threw = threw]

VerifyVoter ==
  /\ \E login \in LoginInputs, faceData \in FaceInputs :
       VerifyVoterCall(verifyVoterThrows(login.aadhaarNumber, login.voterId, login.name, faceData),
                       verifyVoter(login.aadhaarNumber, login.voterId, login.name, faceData),
                       claimedVoter(login.aadhaarNumber, login.voterId, login.name))
  /\ UNCHANGED <<voters, candidates, isAdminAuthenticated, now, nextSerial, accepted, marked, outside>>

\* verifyVoter called with either of the two values under examination as
\* the face capture, whatever their type
VerifyUntrusted ==
  /\ \E login \in LoginInputs, faceData \in {probe.face1, probe.face2} :
       VerifyVoterCall(verifyVoterThrows(login.aadhaarNumber, login.voterId, login.name, faceData),
                       verifyVoter(login.aadhaarNumber, login.voterId, login.name, faceData),
                       claimedVoter(login.aadhaarNumber, login.voterId, login.name))
  /\ UNCHANGED <<voters, candidates, isAdminAuthenticated, now, nextSerial, accepted, marked, outside>>

castVoteResult(voter) ==
  IF voter = 0 THEN FALSE
  ELSE IF voters[voter].hasVoted THEN FALSE
  ELSE TRUE

castVote(candidateId, voterId) ==
  LET hasId(v) == v.id = voterId
  IN  castVoteResult(findVoter({v \in Elements(voters) : hasId(v)}))

\* total number of ballots accepted so far
RECURSIVE ballots(_)
ballots(n) == IF n = 0 THEN 0 ELSE accepted[n] + ballots(n - 1)

\* a castVote that counts the ballot before it looks for the voter
CastVoteCountingFirst(candidateId, voterId, result, found) ==
  /\ voters' = IF result
                 THEN [i \in 1..Len(voters) |->
                         IF voters[i].id = voterId
                           THEN [voters[i] EXCEPT !.hasVoted = TRUE]
                           ELSE voters[i]]
                 ELSE voters
  /\ candidates' = [i \in 1..Len(candidates) |->
                      IF candidates[i].id = candidateId
                        THEN [candidates[i] EXCEPT !.voteCount = @ + 1]
                        ELSE candidates[i]]
  /\ accepted' = IF result THEN [accepted EXCEPT ![SerialAt(found)] = @ + 1] ELSE accepted
  /\ marked' = IF result THEN marked \cup SerialsWithId(voterId) ELSE marked
  /\ last' = Call("castVote", result, found)

CastVoteCall(candidateId, voterId, result, found) ==
  /\ voters' = IF result
                 THEN [i \in 1..Len(voters) |->
                         IF voters[i].id = voterId
                           THEN [voters[i] EXCEPT !.hasVoted = TRUE]
                           ELSE voters[i]]
                 ELSE voters
  /\ candidates' = IF result
                     THEN [i \in 1..Len(candidates) |->
                             IF candidates[i].id = candidateId
                               THEN [candidates[i] EXCEPT !.voteCount = @ + 1]
                               ELSE candidates[i]]
                     ELSE candidates
  /\ accepted' = IF result THEN [accepted EXCEPT ![SerialAt(found)] = @ + 1] ELSE accepted
  /\ marked' = IF result THEN marked \cup SerialsWithId(voterId) ELSE marked
  /\ last' = Call("castVote", result, found)

CastVote ==
  /\ ballots(MaxRegistrations) < MaxCasts
  /\ \E candidateId \in CandidateIdArgs, voterId \in VoterIdArgs :
       LET hasId(v) == v.id = voterId
       IN  CastVoteCall(candidateId, voterId, castVote(candidateId, voterId), findVoter({v \in Elements(voters) : hasId(v)}))
  /\ UNCHANGED <<isAdminAuthenticated, now, nextSerial, outside>>

AddCandidate ==
  /\ Len(candidates) < MaxCandidates
  /\ \E candidateData \in CandidateInputs :
       candidates' = Append(candidates, [id |-> now, name |-> candidateData.name,
                                         symbol |-> candidateData.symbol, voteCount |-> 0])
  /\ last' = [NoCall EXCEPT !.op = "addCandidate", !.success = TRUE]
  /\ UNCHANGED <<voters, isAdminAuthenticated, now, nextSerial, accepted, marked, outside>>

candidateUpdateResult(candidateIndex, duplicateCandidate) ==
  IF candidateIndex = 0
    THEN [success |-> FALSE, message |-> "Candidate not found"]
  ELSE IF duplicateCandidate # 0
    THEN [success |-> FALSE, message |-> "Candidate name or symbol already exists"]
  ELSE [success |-> TRUE, message |-> "Candidate information updated successfully"]

updateCandidate(candidateId, updates) ==
  LET hasId(c) == c.id = candidateId
      duplicate(c) ==
        /\ c.id # candidateId
        /\ \/ trim(toLowerCase(c.name)) = trim(toLowerCase(updates.name))
           \/ c.symbol = updates.symbol
  IN  candidateUpdateResult(FirstIndex(candidates, {e \in Elements(candidates) : hasId(e)}), FirstIndex(candidates, {e \in Elements(candidates) : duplicate(e)}))

UpdateCandidateCall(candidateId, updates, result) ==
  /\ candidates' = IF result.success
                     THEN [i \in 1..Len(candidates) |->
                             IF candidates[i].id = candidateId
                               THEN Merge(candidates[i], updates)
                               ELSE candidates[i]]
                     ELSE candidates
  /\ last' = [NoCall EXCEPT !.op = "updateCandidate", !.success = result.success]

UpdateCandidate ==
  /\ \E candidateId \in CandidateIdArgs, updates \in CandidateInputs :
       UpdateCandidateCall(candidateId, updates, updateCandidate(candidateId, updates))
  /\ UNCHANGED <<voters, isAdminAuthenticated, now, nextSerial, accepted, marked, outside>>

UsernameInputs == {"vamshi", "sumer", "admin"}

PasswordInputs == {"admin123", "password"}

authenticateAdmin(username, password) ==
  (username = "vamshi" \/ username = "sumer") /\ password = "admin123"

AuthenticateAdminCall(result) ==
  /\ isAdminAuthenticated' = IF result THEN TRUE ELSE isAdminAuthenticated
  /\ last' = [NoCall EXCEPT !.op = "authenticateAdmin", !.success = result]

AuthenticateAdmin ==
  /\ \E username \in UsernameInputs, password \in PasswordInputs :
       AuthenticateAdminCall(authenticateAdmin(username, password))
  /\ UNCHANGED <<voters, candidates, now, nextSerial, accepted, marked, outside>>

LogoutAdmin ==
  /\ isAdminAuthenticated' = FALSE
  /\ last' = [NoCall EXCEPT !.op = "logoutAdmin", !.success = TRUE]
  /\ UNCHANGED <<voters, candidates, now, nextSerial, accepted, marked, outside>>

\* a millisecond passes
Tick ==
  /\ now < MaxClock
  /\ now' = now + 1
  /\ UNCHANGED <<voters, candidates, isAdminAuthenticated, nextSerial, accepted, marked, last, outside>>

Next ==
  \/ RegisterVoter
  \/ UpdateVoter
  \/ DeleteVoter
  \/ VerifyVoter
  \/ CastVote
  \/ AddCandidate
  \/ UpdateCandidate
  \/ AuthenticateAdmin
  \/ LogoutAdmin
  \/ Tick

Spec == Init /\ [][Next]_vars

\* the calls that enrol and vote: the roster and the ballots
VotingNext ==
  \/ RegisterVoter
  \/ UpdateVoter
  \/ DeleteVoter
  \/ VerifyVoter
  \/ CastVote
  \/ Tick

VotingSpec == Init /\ [][VotingNext]_vars

\* registrations and deletions only
EnrollmentNext ==
  \/ RegisterVoter
  \/ DeleteVoter
  \/ Tick

EnrollmentSpec == Init /\ [][EnrollmentNext]_vars

(***************************************************************************)
(* One person enrolling, voting, being deleted and enrolling again         *)
(***************************************************************************)
\* registerVoter with the form of one person, Asha, and any capture
RegisterReturning ==
  /\ Len(voters) < MaxVoters
  /\ nextSerial <= MaxRegistrations
  /\ \E face \in FaceInputs :
       RegisterVoterCall(Form(Asha, face, IRIS_MIN_LENGTH),
                         registerVoter(Form(Asha, face, IRIS_MIN_LENGTH)))
  /\ UNCHANGED <<candidates, isAdminAuthenticated, now, accepted, marked, outside>>

ReturningNext ==
  \/ RegisterReturning
  \/ DeleteVoter
  \/ VerifyVoter
  \/ CastVote
  \/ Tick

ReturningSpec == Init /\ [][ReturningNext]_vars

(***************************************************************************)
(* VoteCasting: login, face verification, ballot                           *)
(***************************************************************************)
\* one unit of time is 250 ms; the delays of the setTimeout calls
\* (1000, 1500, 2000 and 3000 ms)
VERIFY_DELAY == 4

GRANT_DELAY == 6

FAILURE_DELAY == 8

RESET_DELAY == 12

\* verificationAttempts >= 3
MAX_ATTEMPTS == 3

\* imageData.length < 10000
CAPTURE_MIN_LENGTH == 4

\* bounds: captures counted, timers pending, logins and resets counted
MaxAttempts == 4

MaxTimers == 2

MaxSessions == 3

\* the roster after Asha and Ravi have registered, one millisecond apart
EnrolledRoster ==
  << [id |-> EPOCH, serial |-> 1, name |-> Asha.name, aadhaarNumber |-> Asha.aadhaarNumber,
      voterId |-> Asha.voterId, faceData |-> FaceA, irisData |-> IRIS_MIN_LENGTH,
      hasVoted |-> FALSE],
     [id |-> EPOCH + 1, serial |-> 2, name |-> Ravi.name, aadhaarNumber |-> Ravi.aadhaarNumber,
      voterId |-> Ravi.voterId, faceData |-> FaceB, irisData |-> IRIS_MIN_LENGTH,
      hasVoted |-> FALSE] >>

\* useState({ name: '', aadhaarNumber: '', voterId: '' })
EmptyLogin == [name |-> <<>>, aadhaarNumber |-> <<>>, voterId |-> <<>>]

\* what a voter types into the login form
LoginForms == {Asha, Ravi, [Asha EXCEPT !.voterId = <<>>]}

\* what canvas.toDataURL returns: a frame of Asha, a frame of Ravi, a frame
\* that encodes to fewer characters than CAPTURE_MIN_LENGTH
CaptureInputs == {FaceA, FaceB, FaceShort}

\* useState(null); verifiedIn records the session in which verifyVoter returned the voter
NoVerifiedVoter == [id |-> UNKNOWN_ID, verifiedIn |-> 0]

NoBallot == [id |-> UNKNOWN_ID, verifiedIn |-> 0, castIn |-> 0]

\* the component as first rendered.  session counts the logins and resets,
\* ballot is the most recent castVote invocation of handleVote, verifyCalls
\* counts the verifyVoter calls made since the latest login or reset
MountedPage ==
  [step |-> "login", loginData |-> EmptyLogin, verifiedVoter |-> NoVerifiedVoter,
   isCapturing |-> FALSE, stream |-> "none", verificationStatus |-> "idle",
   verificationAttempts |-> 0, timers |-> <<>>, session |-> 0, ballot |-> NoBallot,
   verifyCalls |-> 0]

VoteCastingInit ==
  /\ voters = EnrolledRoster
  /\ candidates = << [id |-> 1, name |-> <<"J", "o", "h", "n">>, symbol |-> "blue", voteCount |-> 0],
                     [id |-> 2, name |-> <<"S", "a", "r", "a", "h">>, symbol |-> "red", voteCount |-> 0] >>
  /\ isAdminAuthenticated = FALSE
  /\ now = EPOCH + 1
  /\ nextSerial = 3
  /\ accepted = [n \in 1..MaxRegistrations |-> 0]
  /\ marked = {}
  /\ last = NoCall
  /\ ui = MountedPage
  /\ probe = NoProbe

\* a render of the provider: the voters its functions close over
RenderOf(roster) == [phase |-> "render", voters |-> roster]

SnapshotInit ==
  /\ ContextInit
  /\ ui = NoPage
  /\ probe = RenderOf(<<>>)

\* registerVoter of the latest render: the checks read that render's voters,
\* setVoters(prev => [...prev, newVoter]) appends to the queued state
RegisterVoterInRender ==
  /\ Len(voters) < MaxVoters
  /\ nextSerial <= MaxRegistrations
  /\ \E voterData \in VoterInputs :
       RegisterVoterCall(voterData, registerVoterOver(probe.voters, voterData))
  /\ UNCHANGED <<candidates, isAdminAuthenticated, now, accepted, marked, outside>>

\* React renders the provider again with the state that was queued
Rerender ==
  /\ probe.voters # voters
  /\ probe' = RenderOf(voters)
  /\ UNCHANGED <<context, ui>>

SnapshotNext ==
  \/ RegisterVoterInRender
  \/ Rerender
  \/ Tick

SnapshotSpec == SnapshotInit /\ [][SnapshotNext]_vars

\* the context once Asha and Ravi have registered, no page mounted
AdminInit ==
  /\ voters = EnrolledRoster
  /\ candidates = << [id |-> 1, name |-> <<"J", "o", "h", "n">>, symbol |-> "blue", voteCount |-> 0],
                     [id |-> 2, name |-> <<"S", "a", "r", "a", "h">>, symbol |-> "red", voteCount |-> 0] >>
  /\ isAdminAuthenticated = FALSE
  /\ now = EPOCH + 1
  /\ nextSerial = 3
  /\ accepted = [n \in 1..MaxRegistrations |-> 0]
  /\ marked = {}
  /\ last = NoCall
  /\ ui = NoPage
  /\ probe = NoProbe

\* the calls of the admin dashboard and of voter management
AdminNext ==
  \/ AuthenticateAdmin
  \/ LogoutAdmin
  \/ AddCandidate
  \/ UpdateCandidate
  \/ UpdateVoter
  \/ DeleteVoter

AdminSpec == AdminInit /\ [][AdminNext]_vars

\* if (step === 'vote') { if (!verifiedVoter || verificationStatus !== 'success')
\*   { setStep('verify'); return null; } ... }
Render(page) ==
  IF page.step = "vote"
       /\ (page.verifiedVoter = NoVerifiedVoter \/ page.verificationStatus # "success")
    THEN [page EXCEPT !.step = "verify"]
    ELSE page

\* the page changes and nothing else does
PageOnly(page) ==
  /\ ui' = Render(page)
  /\ UNCHANGED <<context, probe>>

\* Timers are kept in the order of the captures they stem from: a timer set
\* by a timer's callback takes its place.  due is the time left.
Timer(kind, delay, closure) == [kind |-> kind, due |-> delay, closure |-> closure]

Without(timers, i) == SubSeq(timers, 1, i - 1) \o SubSeq(timers, i + 1, Len(timers))

Become(timers, i, timer) == [timers EXCEPT ![i] = timer]

\* Events are instantaneous and no two happen at once: of the events of one
\* instant, the timers that are due come first, in the order of their captures
NoTimerDue == \A i \in 1..Len(ui.timers) : ui.timers[i].due > 0

Runs(i, kind) ==
  /\ i \in 1..Len(ui.timers)
  /\ ui.timers[i].kind = kind
  /\ ui.timers[i].due = 0
  /\ \A j \in 1..(i - 1) : ui.timers[j].due > 0

HandleLogin ==
  /\ NoTimerDue
  /\ ui.step = "login"
  /\ ui.session < MaxSessions
  /\ \E form \in LoginForms :
       IF Len(form.name) = 0 \/ Len(form.aadhaarNumber) = 0 \/ Len(form.voterId) = 0
         THEN PageOnly([ui EXCEPT !.loginData = form])
         ELSE PageOnly([ui EXCEPT !.loginData = form, !.step = "verify",
                                  !.verificationAttempts = 0, !.session = @ + 1,
                                  !.verifyCalls = 0])

\* setIsCapturing(true), then the page waits for getUserMedia
StartCamera ==
  /\ NoTimerDue
  /\ ui.step = "verify"
  /\ ~ui.isCapturing
  /\ ui.verificationStatus = "idle"
  /\ ui.verificationAttempts < MAX_ATTEMPTS
  /\ PageOnly([ui EXCEPT !.isCapturing = TRUE, !.stream = "pending"])

\* getUserMedia resolves (the stream goes to the video element, if there is
\* one) or rejects
CameraResolves ==
  /\ NoTimerDue
  /\ ui.stream = "pending"
  /\ \E granted \in BOOLEAN :
       IF granted
         THEN PageOnly([ui EXCEPT !.stream = IF ui.isCapturing THEN "live" ELSE "none"])
         ELSE PageOnly([ui EXCEPT !.stream = "none", !.isCapturing = FALSE])

\* the tracks of the stream on the video element are stopped; a getUserMedia
\* call still waiting is left to resolve
stopCamera(page) ==
  [page EXCEPT !.isCapturing = FALSE,
               !.stream = IF page.stream = "pending" THEN "pending" ELSE "none"]

\* the Cancel button
StopCamera ==
  /\ NoTimerDue
  /\ ui.step = "verify"
  /\ ui.isCapturing
  /\ ui.verificationStatus # "verifying"
  /\ PageOnly(stopCamera(ui))

\* the frame drawn from the video element: nothing before the stream is live
FramesOf(page) == IF page.stream = "live" THEN CaptureInputs ELSE {FaceShort}

CaptureAndVerify ==
  /\ NoTimerDue
  /\ ui.step = "verify"
  /\ ui.isCapturing
  /\ ui.verificationStatus # "verifying"
  /\ ui.verificationAttempts < MaxAttempts
  /\ Len(ui.timers) < MaxTimers
  /\ \E imageData \in FramesOf(ui) :
       IF StrLen(imageData) < CAPTURE_MIN_LENGTH
         THEN PageOnly([ui EXCEPT !.verificationStatus = "failed",
                                  !.verificationAttempts = @ + 1,
                                  !.timers = Append(@, Timer("error", FAILURE_DELAY, <<>>))])
         ELSE PageOnly([stopCamera(ui) EXCEPT
                          !.verificationStatus = "verifying",
                          !.verificationAttempts = @ + 1,
                          !.timers = Append(@, Timer("verify", VERIFY_DELAY,
                                                     [loginData |-> ui.loginData,
                                                      imageData |-> imageData,
                                                      verificationAttempts |-> ui.verificationAttempts,
                                                      voters |-> voters]))])

\* the outcome of the verifyVoter call of the first timer
Verified(i, result, roster) ==
  IF result.success
    THEN PageOnly([ui EXCEPT
                     !.verificationStatus = "success",
                     !.verifyCalls = @ + 1,
                     !.timers = Become(@, i, Timer("grant", GRANT_DELAY,
                                                   [id |-> roster[result.voter].id,
                                                    verifiedIn |-> ui.session]))])
    ELSE PageOnly([ui EXCEPT
                     !.verificationStatus = "failed",
                     !.verifyCalls = @ + 1,
                     !.timers = Become(@, i, Timer("failure", FAILURE_DELAY,
                                                   ui.timers[i].closure.verificationAttempts))])

\* setTimeout(() => { const result = verifyVoter(...) ... }, 1000)
VerifyTimer ==
  \E i \in 1..Len(ui.timers) :
    /\ Runs(i, "verify")
    /\ Verified(i,
                verifyVoterOver(ui.timers[i].closure.voters,
                                ui.timers[i].closure.loginData.aadhaarNumber,
                                ui.timers[i].closure.loginData.voterId,
                                ui.timers[i].closure.loginData.name,
                                ui.timers[i].closure.imageData),
                ui.timers[i].closure.voters)

\* setTimeout(() => { setVerifiedVoter(result.voter); setStep('vote') }, 1500)
GrantTimer ==
  \E i \in 1..Len(ui.timers) :
    /\ Runs(i, "grant")
    /\ PageOnly([ui EXCEPT !.verifiedVoter = ui.timers[i].closure, !.step = "vote",
                           !.timers = Without(@, i)])

\* setTimeout(() => { ... if (verificationAttempts >= 3) ... }, 2000)
FailureTimer ==
  \E i \in 1..Len(ui.timers) :
    /\ Runs(i, "failure")
    /\ IF ui.timers[i].closure >= MAX_ATTEMPTS
         THEN PageOnly([ui EXCEPT !.timers = Become(@, i, Timer("reset", RESET_DELAY, <<>>))])
         ELSE PageOnly([ui EXCEPT !.verificationStatus = "idle", !.timers = Without(@, i)])

\* setTimeout(() => { setVerificationStatus('idle'); setFaceCapture(null) }, 2000)
ErrorTimer ==
  \E i \in 1..Len(ui.timers) :
    /\ Runs(i, "error")
    /\ PageOnly([ui EXCEPT !.verificationStatus = "idle", !.timers = Without(@, i)])

resetVoting(page) ==
  [stopCamera(page) EXCEPT !.step = "login", !.loginData = EmptyLogin,
                           !.verifiedVoter = NoVerifiedVoter, !.verificationStatus = "idle",
                           !.verificationAttempts = 0, !.session = @ + 1,
                           !.verifyCalls = 0]

\* setTimeout(() => { resetVoting() }, 3000)
ResetTimer ==
  \E i \in 1..Len(ui.timers) :
    /\ Runs(i, "reset")
    /\ ui.session < MaxSessions
    /\ PageOnly([resetVoting(ui) EXCEPT !.timers = Without(@, i)])

\* the Cast Another Vote button
ResetVoting ==
  /\ NoTimerDue
  /\ ui.step = "success"
  /\ ui.session < MaxSessions
  /\ PageOnly(resetVoting(ui))

\* the Try Again button
RetryVerification ==
  /\ NoTimerDue
  /\ ui.step = "verify"
  /\ ui.verificationStatus = "failed"
  /\ ui.verificationAttempts < MAX_ATTEMPTS
  /\ PageOnly([stopCamera(ui) EXCEPT !.verificationStatus = "idle"])

HandleVoteCall(candidateId, result, found) ==
  /\ CastVoteCall(candidateId, ui.verifiedVoter.id, result, found)
  /\ ui' = Render([ui EXCEPT !.step = IF result THEN "success" ELSE @,
                             !.ballot = [id |-> ui.verifiedVoter.id,
                                         verifiedIn |-> ui.verifiedVoter.verifiedIn,
                                         castIn |-> ui.session]])
  /\ UNCHANGED <<isAdminAuthenticated, now, nextSerial, probe>>

\* a click on a candidate's card
HandleVote ==
  /\ NoTimerDue
  /\ ui.step = "vote"
  /\ \E i \in 1..Len(candidates) :
       IF ui.verifiedVoter = NoVerifiedVoter \/ ui.verificationStatus # "success"
         THEN PageOnly([ui EXCEPT !.step = "verify"])
         ELSE LET hasId(v) == v.id = ui.verifiedVoter.id
              IN  HandleVoteCall(candidates[i].id,
                                 castVote(candidates[i].id, ui.verifiedVoter.id),
                                 findVoter({v \in Elements(voters) : hasId(v)}))

\* 250 ms pass
Elapse ==
  /\ ui.timers # <<>>
  /\ NoTimerDue
  /\ PageOnly([ui EXCEPT !.timers = [i \in 1..Len(@) |-> [@[i] EXCEPT !.due = @ - 1]]])

VoteCastingNext ==
  \/ HandleLogin
  \/ StartCamera
  \/ CameraResolves
  \/ StopCamera
  \/ CaptureAndVerify
  \/ VerifyTimer
  \/ GrantTimer
  \/ FailureTimer
  \/ ErrorTimer
  \/ ResetTimer
  \/ ResetVoting
  \/ RetryVerification
  \/ HandleVote
  \/ Elapse

VoteCastingSpec == VoteCastingInit /\ [][VoteCastingNext]_vars

(***************************************************************************)
(* castVote called more than once before the provider renders again        *)
(***************************************************************************)

\* number of castVote calls followed between two renders
MaxStaleCalls == 2

\* a render of the provider: the voters castVote closes over, the candidates
\* shown, and the voter ids castVote has been called with since
VotingRenderOf(roster, shown) ==
  [phase |-> "render", voters |-> roster, candidates |-> shown, calls |-> <<>>]

\* castVote of a render: voters.find and voter.hasVoted read that render's voters
castVoteOver(roster, voterId) ==
  LET hasId(v) == v.id = voterId
      voter == FirstIndex(roster, {v \in Elements(roster) : hasId(v)})
  IN  IF voter = 0 THEN FALSE
      ELSE IF roster[voter].hasVoted THEN FALSE
      ELSE TRUE

StaleVoteInit ==
  /\ voters = EnrolledRoster
  /\ candidates = << [id |-> 1, name |-> <<"J", "o", "h", "n">>, symbol |-> "blue", voteCount |-> 0],
                     [id |-> 2, name |-> <<"S", "a", "r", "a", "h">>, symbol |-> "red", voteCount |-> 0] >>
  /\ isAdminAuthenticated = FALSE
  /\ now = EPOCH + 1
  /\ nextSerial = 3
  /\ accepted = [n \in 1..MaxRegistrations |-> 0]
  /\ marked = {}
  /\ last = NoCall
  /\ ui = NoPage
  /\ probe = VotingRenderOf(voters, candidates)

\* castVote of the latest render: the two checks read that render's voters,
\* setVoters(prev => ...) and setCandidates(prev => ...) update the queued state
CastVoteInRender ==
  /\ Len(probe.calls) < MaxStaleCalls
  /\ \E candidateId \in CandidateIdArgs, voterId \in VoterIdArgs :
       LET hasId(v) == v.id = voterId
       IN  /\ CastVoteCall(candidateId, voterId, castVoteOver(probe.voters, voterId),
                           findVoter({v \in Elements(voters) : hasId(v)}))
           /\ probe' = [probe EXCEPT !.calls = Append(@, voterId)]
  /\ UNCHANGED <<isAdminAuthenticated, now, nextSerial, ui>>

\* React renders the provider again with the state that was queued
RerenderVoting ==
  /\ probe.calls # <<>>
  /\ probe' = VotingRenderOf(voters, candidates)
  /\ UNCHANGED <<context, ui>>

StaleVoteNext ==
  \/ CastVoteInRender
  \/ RerenderVoting

StaleVoteSpec == StaleVoteInit /\ [][StaleVoteNext]_vars

(***************************************************************************)
(* The scorers and verifyFaceMatch applied to a pair of blobs              *)
(***************************************************************************)
\* every string of the model: data URLs, strings that are no data URL,
\* data URLs without the base64 marker
Blobs ==
  {DataUrl(STD_HEAD, p) : p \in Payloads} \cup {DataUrl(LONG_HEAD, p) : p \in Payloads}
    \cup {RawString(p) : p \in Payloads} \cup {NoMarker(p) : p \in Payloads}

\* blobs held as one side of a comparison
ReferenceFaces ==
  FaceInputs \cup {RawString(<<>>), RawString(<<"/", "R", "i", "R">>),
                   NoMarker(<<"/", "R", "i", "R">>)}

\* pairs of arguments: a reference blob against any blob, in either order,
\* and any blob against itself
ScoringInputs ==
  (ReferenceFaces \X Blobs) \cup (Blobs \X ReferenceFaces) \cup {<<b, b>> : b \in Blobs}

ScoringInit ==
  /\ ContextInit
  /\ ui = NoPage
  /\ \E pair \in ScoringInputs :
       probe = [phase |-> "arguments", face1 |-> pair[1], face2 |-> pair[2]]

Applied(function, threw, result) ==
  /\ probe' = [phase |-> function, face1 |-> probe.face1, face2 |-> probe.face2,
               threw |-> threw, result |-> IF threw THEN Thrown ELSE result]
  /\ UNCHANGED <<context, ui>>

CalculateVotingFaceSimilarity ==
  /\ probe.phase = "arguments"
  /\ Applied("calculateVotingFaceSimilarity",
             calculateVotingFaceSimilarityThrows(probe.face1, probe.face2),
             calculateVotingFaceSimilarity(probe.face1, probe.face2))

CalculateMaximumSecurityFaceSimilarity ==
  /\ probe.phase = "arguments"
  /\ Applied("calculateMaximumSecurityFaceSimilarity", FALSE,
             calculateMaximumSecurityFaceSimilarity(probe.face1, probe.face2))

VerifyFaceMatch ==
  /\ probe.phase = "arguments"
  /\ Applied("verifyFaceMatch", calculateVotingFaceSimilarityThrows(probe.face1, probe.face2),
             verifyFaceMatch(probe.face1, probe.face2))

\* one run of compareFaceImages; the comparison can be run again on the same pair
CompareFaceImages ==
  /\ probe.phase \in {"arguments", "compareFaceImages"}
  /\ \E matchScore \in RandomNumbers :
       Applied("compareFaceImages", FALSE, compareFaceImages(probe.face1, probe.face2, matchScore))

ScoringNext ==
  \/ CalculateVotingFaceSimilarity
  \/ CalculateMaximumSecurityFaceSimilarity
  \/ VerifyFaceMatch
  \/ CompareFaceImages

ScoringSpec == ScoringInit /\ [][ScoringNext]_vars

(***************************************************************************)
(* The vote-time scorers applied to an enrolled and a captured blob        *)
(***************************************************************************)
\* length of the payloads compared
PAIR_LENGTH == MaxPayload - 1

\* an enrolled and a captured data URL with payloads of the same length,
\* every pair of payloads of that length
SameLengthPairs ==
  LET payloads == {p \in Payloads : Len(p) = PAIR_LENGTH}
  IN  {<<DataUrl(STD_HEAD, p), DataUrl(STD_HEAD, q)>> : p \in payloads, q \in payloads}

SameLengthInit ==
  /\ ContextInit
  /\ ui = NoPage
  /\ \E pair \in SameLengthPairs :
       probe = [phase |-> "arguments", face1 |-> pair[1], face2 |-> pair[2]]

FaceVerificationCalculateVotingFaceSimilarity ==
  /\ probe.phase = "arguments"
  /\ Applied("faceVerification.calculateVotingFaceSimilarity", FALSE,
             faceVerification_calculateVotingFaceSimilarity(probe.face1, probe.face2))

FaceVerificationVerifyFaceMatch ==
  /\ probe.phase = "arguments"
  /\ Applied("faceVerification.verifyFaceMatch", FALSE,
             faceVerification_verifyFaceMatch(probe.face1, probe.face2))

CalculateStrictVotingFaceSimilarity ==
  /\ probe.phase = "arguments"
  /\ Applied("calculateStrictVotingFaceSimilarity", FALSE,
             calculateStrictVotingFaceSimilarity(probe.face1, probe.face2))

SameLengthNext ==
  \/ CalculateVotingFaceSimilarity
  \/ VerifyFaceMatch
  \/ CalculateStrictVotingFaceSimilarity
  \/ FaceVerificationCalculateVotingFaceSimilarity
  \/ FaceVerificationVerifyFaceMatch

SameLengthSpec == SameLengthInit /\ [][SameLengthNext]_vars

(***************************************************************************)
(* The scorers applied to a pair of blobs and to the same pair swapped     *)
(***************************************************************************)
\* data URLs with the shortest payloads that differ in length from the longest by two
ShortFaces == {DataUrl(STD_HEAD, p) : p \in {q \in Payloads : Len(q) = MaxPayload - 2}}

\* the pairs of the scorers' specification, and every data URL against a
\* short one, in either order
SymmetryInputs ==
  LET urls == {DataUrl(STD_HEAD, p) : p \in Payloads}
  IN  ScoringInputs \cup (ShortFaces \X urls) \cup (urls \X ShortFaces)

SymmetryInit ==
  /\ ContextInit
  /\ ui = NoPage
  /\ \E pair \in SymmetryInputs :
       probe = [phase |-> "arguments", face1 |-> pair[1], face2 |-> pair[2]]

CalculateVotingFaceSimilarityInDoubles ==
  /\ probe.phase = "arguments"
  /\ Applied("calculateVotingFaceSimilarity in doubles", FALSE,
             doubleVotingFaceSimilarity(probe.face1, probe.face2))

SymmetryNext ==
  \/ CalculateVotingFaceSimilarity
  \/ CalculateMaximumSecurityFaceSimilarity
  \/ CalculateStrictVotingFaceSimilarity
  \/ CalculateVotingFaceSimilarityInDoubles

SymmetrySpec == SymmetryInit /\ [][SymmetryNext]_vars

(***************************************************************************)
(* validateFaceImageQuality applied to any value                           *)
(***************************************************************************)
\* every value a caller can pass: undefined, a value that is no string, and
\* strings with any payload, base64 or not
ValidatorInputs ==
  {UndefinedBlob, NonStringBlob}
    \cup {DataUrl(STD_HEAD, p) : p \in AnyPayloads} \cup {DataUrl(LONG_HEAD, p) : p \in AnyPayloads}
    \cup {RawString(p) : p \in AnyPayloads} \cup {NoMarker(p) : p \in AnyPayloads}

ValidatorInit ==
  /\ ContextInit
  /\ ui = NoPage
  /\ \E faceData \in ValidatorInputs :
       probe = [phase |-> "arguments", face1 |-> faceData, face2 |-> faceData]

ValidateFaceImageQuality ==
  /\ probe.phase = "arguments"
  /\ Applied("validateFaceImageQuality", FALSE, validateFaceImageQuality(probe.face1))

ValidatorNext == ValidateFaceImageQuality

ValidatorSpec == ValidatorInit /\ [][ValidatorNext]_vars

(***************************************************************************)
(* Calls with values that are not face captures                            *)
(***************************************************************************)
\* an enrolled face, a missing value or a value that is no string, against
\* any value, in either order
UntrustedPairs ==
  ({FaceA, UndefinedBlob, NonStringBlob} \X UntrustedFaces)
    \cup (UntrustedFaces \X {FaceA, UndefinedBlob, NonStringBlob})

UntrustedInit ==
  /\ ContextInit
  /\ ui = NoPage
  /\ \E pair \in UntrustedPairs :
       probe = [phase |-> "arguments", face1 |-> pair[1], face2 |-> pair[2]]

\* validation and scoring of a pair of values, and the two calls of the
\* context that take a face capture
UntrustedNext ==
  \/ ValidateFaceImageQuality
  \/ CalculateVotingFaceSimilarity
  \/ CalculateMaximumSecurityFaceSimilarity
  \/ VerifyFaceMatch
  \/ RegisterUntrusted
  \/ VerifyUntrusted

UntrustedSpec == UntrustedInit /\ [][UntrustedNext]_vars

(***************************************************************************)
(* verifyVoter applied to two rosters that differ in irisData only         *)
(***************************************************************************)
\* iris captures a record can hold: registerVoter stores captures of the
\* minimum length or more, updateVoter stores whatever it is given
IrisInputs == {0, IRIS_MIN_LENGTH, IRIS_MIN_LENGTH + 1}

\* the record of person p as the i-th registration
EnrolledAs(p, i, face, voted) ==
  [id |-> EPOCH + i, serial |-> i, name |-> p.name, aadhaarNumber |-> p.aadhaarNumber,
   voterId |-> p.voterId, faceData |-> face, irisData |-> IRIS_MIN_LENGTH, hasVoted |-> voted]

\* rosters of Asha and Ravi, in either order, with two different faces
IrisRosters ==
  {<<>>}
    \cup {<<EnrolledAs(p, 1, f, v)>> : p \in {Asha, Ravi}, f \in {FaceA, FaceB}, v \in BOOLEAN}
    \cup {<<EnrolledAs(pq[1], 1, fg[1], v), EnrolledAs(pq[2], 2, fg[2], w)>> :
            pq \in {<<Asha, Ravi>>, <<Ravi, Asha>>}, fg \in {<<FaceA, FaceB>>, <<FaceB, FaceA>>},
            v \in BOOLEAN, w \in BOOLEAN}

\* the roster with the irisData of its records replaced
withIrisData(roster, irises) ==
  [i \in 1..Len(roster) |-> [roster[i] EXCEPT !.irisData = irises[i]]]

IrisInit ==
  /\ ContextInit
  /\ ui = NoPage
  /\ \E roster \in IrisRosters, login \in LoginInputs, faceData \in FaceInputs :
       \E irises \in [1..Len(roster) -> IrisInputs] :
         probe = [phase |-> "arguments", roster |-> roster, irises |-> irises,
                  login |-> login, faceData |-> faceData]

\* the same verifyVoter call in the two states
VerifyVoterInBoth ==
  /\ probe.phase = "arguments"
  /\ probe' = [phase |-> "verifyVoter", roster |-> probe.roster, irises |-> probe.irises,
               login |-> probe.login, faceData |-> probe.faceData,
               result |-> verifyVoterOver(probe.roster, probe.login.aadhaarNumber,
                                          probe.login.voterId, probe.login.name, probe.faceData),
               other |-> verifyVoterOver(withIrisData(probe.roster, probe.irises),
                                         probe.login.aadhaarNumber, probe.login.voterId,
                                         probe.login.name, probe.faceData)]
  /\ UNCHANGED <<context, ui>>

IrisNext == VerifyVoterInBoth

IrisSpec == IrisInit /\ [][IrisNext]_vars

(***************************************************************************)
(* verifyVoter applied to a roster, a login and a capture of any type      *)
(***************************************************************************)
\* what the vote-casting page or any other caller may pass as the capture
CapturedValues == FaceInputs \cup {UndefinedBlob, NonStringBlob}

\* the context after the voters of a roster have enrolled and those with
\* hasVoted = true have voted for the first candidate
VerificationInit ==
  /\ voters \in IrisRosters
  /\ LET voted == {i \in 1..Len(voters) : voters[i].hasVoted}
     IN  /\ candidates =
               << [id |-> 1, name |-> <<"J", "o", "h", "n">>, symbol |-> "blue",
                   voteCount |-> Cardinality(voted)],
                  [id |-> 2, name |-> <<"S", "a", "r", "a", "h">>, symbol |-> "red",
                   voteCount |-> 0] >>
         /\ accepted = [n \in 1..MaxRegistrations |-> IF n \in voted THEN 1 ELSE 0]
         /\ marked = voted
  /\ isAdminAuthenticated = FALSE
  /\ now = EPOCH + MaxVoters
  /\ nextSerial = Len(voters) + 1
  /\ last = NoCall
  /\ ui = NoPage
  /\ \E login \in LoginInputs, faceData \in CapturedValues :
       probe = [phase |-> "arguments", login |-> login, faceData |-> faceData]

\* one verifyVoter call with its whole result
VerifyVoterReporting(threw, result) ==
  /\ probe.phase = "arguments"
  /\ probe' = [phase |-> "verifyVoter", login |-> probe.login, faceData |-> probe.faceData,
               threw |-> threw, result |-> IF threw THEN Thrown ELSE result]
  /\ UNCHANGED <<context, ui>>

VerifyVoterOnRoster ==
  VerifyVoterReporting(
    verifyVoterThrows(probe.login.aadhaarNumber, probe.login.voterId, probe.login.name,
                      probe.faceData),
    verifyVoter(probe.login.aadhaarNumber, probe.login.voterId, probe.login.name,
                probe.faceData))

VerificationNext == VerifyVoterOnRoster

VerificationSpec == VerificationInit /\ [][VerificationNext]_vars

(***************************************************************************)
(* isFaceAlreadyRegistered applied to a blob and a roster                  *)
(***************************************************************************)
\* bound: longest roster handed to the duplicate guard
MaxRoster == 3

\* registerVoter calls the guard after validateFaceImageQuality has passed
NewFaces == {f \in RosterFaces : validateFaceImageQuality(f).isValid}

\* the i-th record of a roster
Enrolled(i, face) ==
  [id |-> EPOCH + i, serial |-> i, name |-> Asha.name, aadhaarNumber |-> Rep("1", AADHAAR_LENGTH),
   voterId |-> <<"A">> \o Rep("0", VOTER_ID_LENGTH - 1), faceData |-> face,
   irisData |-> IRIS_MIN_LENGTH, hasVoted |-> FALSE]

Rosters ==
  UNION {{[i \in 1..n |-> Enrolled(i, faces[i])] : faces \in [1..n -> RosterFaces]} : n \in 0..MaxRoster}

GuardInit ==
  /\ ContextInit
  /\ ui = NoPage
  /\ \E face \in NewFaces, roster \in Rosters :
       probe = [phase |-> "arguments", newFaceData |-> face, existingVoters |-> roster]

\* the call returns its report, or throws at the log line that reads
\* newFaceData.length
IsFaceAlreadyRegistered ==
  /\ probe.phase = "arguments"
  /\ probe' = [phase |-> "isFaceAlreadyRegistered", newFaceData |-> probe.newFaceData,
               existingVoters |-> probe.existingVoters,
               threw |-> isFaceAlreadyRegisteredThrows(probe.newFaceData),
               result |-> IF isFaceAlreadyRegisteredThrows(probe.newFaceData) THEN Thrown
                          ELSE isFaceAlreadyRegistered(probe.newFaceData, probe.existingVoters)]
  /\ UNCHANGED <<context, ui>>

GuardNext == IsFaceAlreadyRegistered

GuardSpec == GuardInit /\ [][GuardNext]_vars

\* the guard called on its own (utils/duplicateDetection) with any value
UntrustedGuardInit ==
  /\ ContextInit
  /\ ui = NoPage
  /\ \E face \in UntrustedFaces, roster \in Rosters :
       probe = [phase |-> "arguments", newFaceData |-> face, existingVoters |-> roster]

UntrustedGuardSpec == UntrustedGuardInit /\ [][GuardNext]_vars

(***************************************************************************)
(* isFaceAlreadyRegistered and its scorer, one loop iteration a step       *)
(***************************************************************************)
\* bound: longest roster the loops run over
MaxLoopRoster == 2

\* the blobs of the guard's specification and a valid capture with a longer payload
LoopFaces == UntrustedFaces \cup {DataUrl(STD_HEAD, <<"/", "R", "i", "R", "i">>)}

LoopRosters ==
  UNION {{[i \in 1..n |-> Enrolled(i, faces[i])] : faces \in [1..n -> RosterFaces]} :
           n \in 0..MaxLoopRoster}

\* the blobs that pass validateFaceImageQuality
QualityFaces == {face \in LoopFaces : validateFaceImageQuality(face).isValid}

\* calculateMaximumSecurityFaceSimilarity of every blob and every face of a roster
similarities ==
  {<<pair[1], pair[2], calculateMaximumSecurityFaceSimilarity(pair[1], pair[2])>> :
     pair \in LoopFaces \X RosterFaces}

similarityOf(face1, face2) ==
  (CHOOSE entry \in similarities : entry[1] = face1 /\ entry[2] = face2)[3]

\* Math.floor(baseSegmentSize * overlap)
strideOfOverlap(minLength, config) ==
  RFloor(RMul(<<minLength \div config.segments, 1>>, config.overlap))

\* Math.floor(baseSegmentSize * (1 - overlap))
segmentStride(minLength, config) ==
  RFloor(RMul(<<minLength \div config.segments, 1>>, RSub(One, config.overlap)))

\* the stride of every configuration for every compared length, tabulated
segmentStrides ==
  {<<minLength, k, segmentStride(minLength, segmentConfigs[k])>> :
     minLength \in 0..MaxPayload, k \in 1..Len(segmentConfigs)}

strideAt(minLength, k) ==
  (CHOOSE entry \in segmentStrides : entry[1] = minLength /\ entry[2] = k)[3]

\* the position of the call: the layer or loop it is in, the record of the
\* roster it has reached, the configuration and index i of the scorer's
\* loop, and the number of times an index i has been advanced
At(phase, voter, config, i, advanced) ==
  [phase |-> phase, newFaceData |-> probe.newFaceData, existingVoters |-> probe.existingVoters,
   voter |-> voter, config |-> config, i |-> i, advanced |-> advanced]

\* no call yet
LoopInit ==
  /\ ContextInit
  /\ ui = NoPage
  /\ probe = NoProbe

\* isFaceAlreadyRegistered is called with a blob and a roster
CallGuard ==
  /\ probe = NoProbe
  /\ \E face \in LoopFaces, roster \in LoopRosters :
       probe' = [phase |-> "arguments", newFaceData |-> face, existingVoters |-> roster,
                 voter |-> 0, config |-> 0, i |-> 0, advanced |-> 0]
  /\ UNCHANGED <<context, ui>>

\* the log line and the first layer: the call throws, returns for a capture
\* of low quality, or enters the loop of the second layer
QualityLayer ==
  /\ probe.phase = "arguments"
  /\ probe' = IF isFaceAlreadyRegisteredThrows(probe.newFaceData)
                   \/ probe.newFaceData \notin QualityFaces
                THEN At("returned", 0, 0, 0, 0)
                ELSE At("exact match", 1, 0, 0, 0)
  /\ UNCHANGED <<context, ui>>

\* for (const voter of existingVoters): one record compared with ===
ExactMatchLayer ==
  /\ probe.phase = "exact match"
  /\ probe' = IF probe.voter > Len(probe.existingVoters)
                THEN At("similarity", 1, 0, 0, 0)
              ELSE IF probe.existingVoters[probe.voter].faceData = probe.newFaceData
                THEN At("returned", probe.voter, 0, 0, 0)
              ELSE At("exact match", probe.voter + 1, 0, 0, 0)
  /\ UNCHANGED <<context, ui>>

\* for (let i = 0; i < existingVoters.length; i++): the scorer is called on
\* the next record and returns at once or enters advancedSegmentAnalysis
SimilarityLayer ==
  /\ probe.phase = "similarity"
  /\ probe' = IF probe.voter > Len(probe.existingVoters)
                THEN At("returned", 0, 0, 0, probe.advanced)
              ELSE LET face2 == probe.existingVoters[probe.voter].faceData
                   IN  IF \/ probe.newFaceData = face2
                          \/ probe.newFaceData \notin QualityFaces
                          \/ face2 \notin QualityFaces
                         THEN At("scored", probe.voter, 0, 0, probe.advanced)
                         ELSE At("segments", probe.voter, 1, 0, probe.advanced)
  /\ UNCHANGED <<context, ui>>

\* min(data1.length, data2.length) of the pair the scorer is working on
comparedLength ==
  Min2(Len(probe.newFaceData.data), Len(probe.existingVoters[probe.voter].faceData.data))

\* for (let i = 0; i < minLength - baseSegmentSize; i += stride), for each
\* of the segmentConfigs
AdvancedSegmentAnalysis ==
  /\ probe.phase = "segments"
  /\ LET config == segmentConfigs[probe.config]
         baseSegmentSize == comparedLength \div config.segments
     IN  probe' = IF probe.i < comparedLength - baseSegmentSize
                    THEN At("segments", probe.voter, probe.config,
                            probe.i + strideAt(comparedLength, probe.config), probe.advanced + 1)
                  ELSE IF probe.config < Len(segmentConfigs)
                    THEN At("segments", probe.voter, probe.config + 1, 0, probe.advanced)
                  ELSE At("windows", probe.voter, 1, 0, probe.advanced)
  /\ UNCHANGED <<context, ui>>

\* for (let i = 0; i <= min(len1, len2) - size; i += stride), for each of
\* the windowConfigs
AdvancedSlidingWindow ==
  /\ probe.phase = "windows"
  /\ LET config == windowConfigs[probe.config]
     IN  probe' = IF probe.i <= comparedLength - config.size
                    THEN At("windows", probe.voter, probe.config, probe.i + config.stride,
                            probe.advanced + 1)
                  ELSE IF probe.config < Len(windowConfigs)
                    THEN At("windows", probe.voter, probe.config + 1, 0, probe.advanced)
                  ELSE At("scored", probe.voter, 0, 0, probe.advanced)
  /\ UNCHANGED <<context, ui>>

\* similarity >= DUPLICATE_THRESHOLD returns, otherwise i++
ThresholdTest ==
  /\ probe.phase = "scored"
  /\ LET similarity == similarityOf(probe.newFaceData,
                                     probe.existingVoters[probe.voter].faceData)
     IN  probe' = IF RGe(similarity, DUPLICATE_THRESHOLD)
                    THEN At("returned", probe.voter, 0, 0, probe.advanced)
                    ELSE At("similarity", probe.voter + 1, 0, 0, probe.advanced)
  /\ UNCHANGED <<context, ui>>

LoopNext ==
  \/ CallGuard
  \/ QualityLayer
  \/ ExactMatchLayer
  \/ SimilarityLayer
  \/ AdvancedSegmentAnalysis
  \/ AdvancedSlidingWindow
  \/ ThresholdTest

LoopSpec == LoopInit /\ [][LoopNext]_vars

\* a call that has started runs on: JavaScript runs a function to completion
LoopFairSpec == LoopSpec /\ WF_vars(LoopNext)

(***************************************************************************)
(* utils/duplicateDetection: isFaceAlreadyRegistered applied to a blob and *)
(* a roster                                                                *)
(***************************************************************************)
\* captures of one length and of other lengths, with the usual and with a
\* longer media type in front of the payload
DetectionFaces ==
  FaceInputs \cup
    {DataUrl(STD_HEAD, <<"/", "/", "R", "/">>), DataUrl(LONG_HEAD, <<"/", "/", "R", "/">>),
     DataUrl(LONG_HEAD, <<"/", "R", "i", "R">>), DataUrl(STD_HEAD, <<"i", "i", "i", "i">>),
     DataUrl(STD_HEAD, <<"/", "R", "i", "R", "/">>)}

DetectionRosters ==
  UNION {{[i \in 1..n |-> Enrolled(i, faces[i])] : faces \in [1..n -> DetectionFaces]} : n \in 0..2}

DetectionInit ==
  /\ ContextInit
  /\ ui = NoPage
  /\ \E faceData \in DetectionFaces, roster \in DetectionRosters :
       probe = [phase |-> "arguments", faceData |-> faceData, voters |-> roster]

DuplicateDetection ==
  /\ probe.phase = "arguments"
  /\ probe' = [phase |-> "duplicateDetection.isFaceAlreadyRegistered",
               faceData |-> probe.faceData, voters |-> probe.voters,
               result |-> duplicateDetection_isFaceAlreadyRegistered(probe.faceData, probe.voters)]
  /\ UNCHANGED <<context, ui>>

DetectionNext == DuplicateDetection

DetectionSpec == DetectionInit /\ [][DetectionNext]_vars

(***************************************************************************)
(* Properties of the voting context                                        *)
(***************************************************************************)
\* C1: no double voting.  No voter record is credited with more than one
\* accepted ballot, and no verifyVoter or castVote call about a record that
\* has ever had hasVoted = true succeeds.
NoDoubleVoting ==
  /\ \A n \in 1..MaxRegistrations : accepted[n] <= 1
  /\ (last.op \in {"verifyVoter", "castVote"} /\ last.success) => ~last.marked

\* C3: the registration gate.  A registerVoter call reports success exactly
\* when it adds a record; the record is appended to the roster, and its face
\* passes validateFaceImageQuality and the duplicate-face check against the
\* roster as it was before the call.
RegistrationGate ==
  [][ (last'.op = "registerVoter" /\ now' = now) =>
        /\ (last'.success <=> voters' # voters)
        /\ (voters' # voters =>
              /\ Len(voters') = Len(voters) + 1
              /\ SubSeq(voters', 1, Len(voters)) = voters
              /\ validateFaceImageQuality(voters'[Len(voters')].faceData).isValid
              /\ ~isFaceAlreadyRegistered(voters'[Len(voters')].faceData, voters).isDuplicate) ]_vars

\* a second voter has just been admitted, past the checks against the first
RegistrationGateWitness ==
  Len(voters) = 2 /\ last.op = "registerVoter" /\ last.success

\* C4: roster distinctness.  After registrations and deletions, no two voters
\* on the roster hold identical face blobs, and the blob of each scored below
\* 0.35 against the blob of every voter enrolled before it.
RosterDistinct ==
  \A i, j \in 1..Len(voters) :
    i < j =>
      /\ voters[i].faceData # voters[j].faceData
      /\ RLt(calculateMaximumSecurityFaceSimilarity(voters[j].faceData, voters[i].faceData),
             <<35, 100>>)

\* two voters are on the roster
RosterDistinctWitness == Len(voters) = 2 /\ last.op = "registerVoter"

\* C16: read-only core and state unchanged on failure.  A verifyVoter call
\* changes neither the roster nor the candidate list, and neither does a
\* registerVoter (the duplicate-face check included), updateVoter,
\* deleteVoter or castVote call that reports failure.
FailureLeavesStateUnchanged ==
  [][/\ last'.op = "verifyVoter" => (voters' = voters /\ candidates' = candidates)
     /\ (last'.op \in {"registerVoter", "updateVoter", "deleteVoter", "castVote"}
           /\ ~last'.success) => (voters' = voters /\ candidates' = candidates)]_vars

\* a second ballot of a voter on the roster was refused, with a roster and a
\* tally that hold the first one
FailureWitness ==
  /\ last.op = "castVote"
  /\ ~last.success
  /\ last.voter # 0
  /\ \E i \in 1..Len(voters) : voters[i].hasVoted
  /\ \E i \in 1..Len(candidates) : candidates[i].voteCount > 0

\* C17: iris data never influences verification.  In two states that
\* differ only in the irisData stored for the enrolled voters, verifyVoter
\* returns the same outcome (success, message and the record verified) for
\* the same Aadhaar number, voter id, name and face blob.
IrisIgnored ==
  probe.phase = "verifyVoter" => probe.other = probe.result

\* a voter verified in both states although the other state holds no iris
\* capture for that voter
IrisIgnoredWitness ==
  /\ probe.phase = "verifyVoter"
  /\ probe.result.success
  /\ probe.roster[probe.result.voter].irisData = IRIS_MIN_LENGTH
  /\ probe.irises[probe.result.voter] = 0
  /\ probe.other.success

\* C19: admin gate.  isAdminAuthenticated becomes true only by an
\* authenticateAdmin call that accepts the username and password, and false
\* only by logoutAdmin; and addCandidate, updateCandidate, updateVoter and
\* deleteVoter change the roster or the candidate list only while
\* isAdminAuthenticated is true.
AdminGate ==
  [][/\ (isAdminAuthenticated' /\ ~isAdminAuthenticated) =>
          (last'.op = "authenticateAdmin" /\ last'.success)
     /\ (~isAdminAuthenticated' /\ isAdminAuthenticated) => last'.op = "logoutAdmin"
     /\ (last'.op \in {"addCandidate", "updateCandidate", "updateVoter", "deleteVoter"}
           /\ (voters' # voters \/ candidates' # candidates)) => isAdminAuthenticated]_vars

\* C20: enrollment is serialized.  A registerVoter call is admitted only if
\* its record shares no Aadhaar number and no voter id with any record
\* inserted before it and its face is no duplicate of theirs, also when the
\* earlier insert was not yet visible to the call: of two calls evaluated
\* against the same roster snapshot that share one of these, at most one is
\* admitted.
EnrollmentSerialized ==
  [][(last'.op = "registerVoter" /\ last'.success /\ Len(voters') = Len(voters) + 1) =>
       LET admitted == voters'[Len(voters')]
       IN  /\ \A i \in 1..Len(voters) :
                /\ voters[i].aadhaarNumber # admitted.aadhaarNumber
                /\ voters[i].voterId # admitted.voterId
           /\ ~isFaceAlreadyRegistered(admitted.faceData, voters).isDuplicate]_vars

\* C21: identifier uniqueness.  After any sequence of registerVoter,
\* updateVoter and deleteVoter calls, no two voters on the roster share an
\* Aadhaar number and no two share a Voter ID.
IdentifiersUnique ==
  \A i, j \in 1..Len(voters) :
    i # j =>
      /\ voters[i].aadhaarNumber # voters[j].aadhaarNumber
      /\ voters[i].voterId # voters[j].voterId

\* the records of the roster that the login names
NamedByLogin ==
  {i \in 1..Len(voters) :
     /\ voters[i].aadhaarNumber = probe.login.aadhaarNumber
     /\ voters[i].voterId = probe.login.voterId
     /\ trim(toLowerCase(voters[i].name)) = trim(toLowerCase(probe.login.name))}

\* C23: order of the verification checks.  verifyVoter returns success only
\* for a login that names an enrolled record which has not voted and whose
\* face the comparison accepts; a login that names no record gets the 'not
\* found' failure and a login that names a record that has voted gets the
\* 'already voted' failure, whatever the capture is and without the face
\* comparison being run (so without its exceptions).
ChecksInOrder ==
  probe.phase = "verifyVoter" =>
    /\ (~probe.threw /\ probe.result.success) =>
         /\ probe.result.voter \in NamedByLogin
         /\ ~voters[probe.result.voter].hasVoted
         /\ probe.faceData.kind = "string"
         /\ RGe(calculateVotingFaceSimilarity(voters[probe.result.voter].faceData,
                                              probe.faceData), VERIFY_THRESHOLD)
    /\ NamedByLogin = {} =>
         ~probe.threw /\ ~probe.result.success /\ probe.result.message = "Voter details not found"
    /\ (\E i \in NamedByLogin : voters[i].hasVoted) =>
         /\ ~probe.threw
         /\ ~probe.result.success
         /\ probe.result.message = "You have already cast your vote"

\* a voter who has voted presents a capture of another face, and a value
\* that is no string, and is told that the vote has been cast
ChecksInOrderWitness ==
  /\ probe.phase = "verifyVoter"
  /\ \E i \in NamedByLogin : voters[i].hasVoted /\ voters[i].faceData = FaceA
  /\ probe.faceData \in {FaceB, UndefinedBlob}
  /\ ~probe.threw
  /\ probe.result.message = "You have already cast your vote"

\* the sum of all voteCount values
TotalVoteCount == SumSeq([i \in 1..Len(candidates) |-> candidates[i].voteCount])

\* C25: vote conservation.  The sum of all voteCount values equals the
\* number of castVote calls that returned true, whatever candidateId the
\* calls were given.
VoteConservation == TotalVoteCount = ballots(MaxRegistrations)

\* every record registered holds the Aadhaar number of the one person
AllRegisteredAs(person) ==
  \A i \in 1..Len(voters) : voters[i].aadhaarNumber = person.aadhaarNumber

\* C26: one counted vote per Aadhaar number.  When every registration is
\* made with the same Aadhaar number, at most one castVote call ever
\* succeeds, also after the voter who has voted is deleted and the same
\* Aadhaar number is registered again.
OneVotePerAadhaar ==
  AllRegisteredAs(Asha) /\ ballots(MaxRegistrations) <= 1

\* C27: record ids are unique.  No two voter records and no two candidate
\* records have the same id, although the id of a record is the timestamp
\* of its creation.
IdsUnique ==
  /\ \A i, j \in 1..Len(voters) : i # j => voters[i].id # voters[j].id
  /\ \A i, j \in 1..Len(candidates) : i # j => candidates[i].id # candidates[j].id

\* total of the vote counts shown by the latest render
RenderedVoteCount == SumSeq([i \in 1..Len(probe.candidates) |-> probe.candidates[i].voteCount])

\* C28: no double count from a stale snapshot.  When castVote has been called
\* twice for the same voter since the latest render, the total of the vote
\* counts is at most 1 above the total of that render.
NoDoubleCount ==
  (Len(probe.calls) = 2 /\ probe.calls[1] = probe.calls[2])
    => TotalVoteCount <= RenderedVoteCount + 1

(***************************************************************************)
(* Properties of the scorers                                               *)
(***************************************************************************)
\* the pair of blobs compared is (a, b)
Compared(function) == probe.phase = function

Voting == "calculateVotingFaceSimilarity"

MaximumSecurity == "calculateMaximumSecurityFaceSimilarity"

Reflexive ==
  probe.face1 = probe.face2 =>
    /\ (Compared(Voting) /\ isValidImage(probe.face1)) => probe.result = One
    /\ (Compared(MaximumSecurity) /\ validateFaceImageQuality(probe.face1).isValid) =>
         probe.result = One
    /\ (Compared("verifyFaceMatch") /\ isValidImage(probe.face1)) => probe.result

\* a valid data URL with nothing after the base64 marker was compared with itself
ReflexiveWitness ==
  /\ Compared(Voting)
  /\ probe.face1 = probe.face2
  /\ isValidImage(probe.face1)
  /\ getBase64(probe.face1) = <<>>

InUnit(r) == ~IsNaN(r) /\ RGe(r, Zero) /\ RLe(r, One)

AllInUnit(scores) == \A k \in 1..Len(scores) : InUnit(scores[k])

\* C11: boundedness.  For valid blobs a and b the composite score of a
\* scorer lies in [0, 1], every score that enters its weighted sum lies in
\* [0, 1], and the weights of each scorer sum to 1.
Bounded ==
  /\ RSum(weights) = One
  /\ RSum(votingWeights) = One
  /\ (Compared(Voting) /\ isValidImage(probe.face1) /\ isValidImage(probe.face2)) =>
       /\ InUnit(probe.result)
       /\ probe.face1 # probe.face2 =>
            AllInUnit(votingScores(getBase64(probe.face1), getBase64(probe.face2)))
  /\ (Compared(MaximumSecurity)
        /\ validateFaceImageQuality(probe.face1).isValid
        /\ validateFaceImageQuality(probe.face2).isValid) =>
       /\ InUnit(probe.result)
       /\ probe.face1 # probe.face2 =>
            AllInUnit(maximumSecurityScores(probe.face1.data, probe.face2.data))

\* C12: determinism.  Two runs of a face comparison on the same (enrolled
\* blob, captured blob) pair return the same score and the same match
\* decision: a comparison that is run again returns what it returned before.
Deterministic ==
  [][(probe.phase # "arguments" /\ probe'.phase = probe.phase
        /\ probe'.face1 = probe.face1 /\ probe'.face2 = probe.face2)
       => probe'.result = probe.result]_vars

Validated == probe.phase = "validateFaceImageQuality"

\* the base64 symbols present in a payload
Base64Present(data) == Cardinality(CharSet(data) \cap Alphabet)

\* the first check a value fails, in the order: non-empty string, data URL
\* prefix, base64 marker, payload length, share of the base64 symbols
\* present, signature, entropy
FirstFailedCheck(value) ==
  IF value.kind # "string" \/ StrLen(value) = 0 THEN "No face data provided"
  ELSE IF ~value.prefix THEN "not a data URL"
  ELSE IF ~value.marker THEN "no base64 data"
  ELSE IF Len(value.data) < MIN_FACE_LENGTH THEN "data length too low"
  ELSE IF RLt(RDiv(Base64Present(value.data), BASE64_SYMBOLS), MIN_COMPLEXITY)
    THEN "complexity too low"
  ELSE IF ~(\E sig \in jpegSignatures : StartsWith(value.data, sig)) THEN "Invalid image header"
  ELSE IF ~EntropyAtLeast(value.data, minEntropy) THEN "entropy too low"
  ELSE "Valid"

\* C13: validateFaceImageQuality reports a value as valid only if it is a
\* non-empty string that starts with 'data:image/', contains 'base64,', has a
\* payload of the minimum length in which at least 85% of the base64 symbols
\* are present, starts with one of the signatures and has the minimum
\* entropy; otherwise it reports it as invalid, with details that name the
\* first of these checks that failed.
ValidatorContract ==
  Validated =>
    /\ probe.result.isValid => FirstFailedCheck(probe.face1) = "Valid"
    /\ ~probe.result.isValid => probe.result.details = FirstFailedCheck(probe.face1)

\* C15: no exception for bad data.  Whatever value is supplied as a face
\* blob (missing, empty, no string, malformed, too short), validation, the
\* scorers, verifyVoter and registerVoter return an outcome and do not throw.
NoExceptionForBadData ==
  /\ ~last.threw
  /\ probe.phase # "arguments" => ~probe.threw

\* the captured payload has the length of the enrolled one and agrees with
\* it at no position
Unrelated ==
  LET enrolled == getBase64(probe.face1)
      captured == getBase64(probe.face2)
  IN  /\ Len(enrolled) = Len(captured)
      /\ Matches(enrolled, captured, Len(enrolled)) = 0

\* C22: an unrelated capture is rejected.  A valid captured blob whose
\* payload has the length of the enrolled payload and agrees with it at no
\* position scores below the verification threshold and is not matched, by
\* the scorer of the context and by the two scorers of utils/faceVerification.
UnrelatedRejected ==
  Unrelated =>
    /\ (Compared(Voting) /\ isValidImage(probe.face1) /\ isValidImage(probe.face2)) =>
         RLt(probe.result, VERIFY_THRESHOLD)
    /\ Compared("verifyFaceMatch") => ~probe.result
    /\ (Compared("calculateStrictVotingFaceSimilarity")
          /\ strictIsValidImage(probe.face1) /\ strictIsValidImage(probe.face2)) =>
         RLt(probe.result, PRACTICAL_THRESHOLD)
    /\ (Compared("faceVerification.calculateVotingFaceSimilarity")
          /\ faceVerification_isValidImage(probe.face1)
          /\ faceVerification_isValidImage(probe.face2)) =>
         RLt(probe.result, PRACTICAL_THRESHOLD)
    /\ Compared("faceVerification.verifyFaceMatch") => ~probe.result

\* C29: symmetry of the scorer.  The score a scorer returns for (a, b) equals
\* the score it returns for (b, a): the vote-time scorer as it is computed,
\* the registration-time scorer and the strict scorer.
ScorerSymmetric ==
  /\ probe.phase = "calculateVotingFaceSimilarity in doubles"
       => probe.result = doubleVotingFaceSimilarity(probe.face2, probe.face1)
  /\ probe.phase = "calculateMaximumSecurityFaceSimilarity"
       => probe.result = calculateMaximumSecurityFaceSimilarity(probe.face2, probe.face1)
  /\ probe.phase = "calculateStrictVotingFaceSimilarity"
       => probe.result = calculateStrictVotingFaceSimilarity(probe.face2, probe.face1)

(***************************************************************************)
(* Properties of the duplicate guard                                       *)
(***************************************************************************)
\* positions of the roster whose blob scores at or above the duplicate
\* threshold against the new blob
OverThreshold(newFaceData, existingVoters) ==
  {i \in 1..Len(existingVoters) :
     RGe(calculateMaximumSecurityFaceSimilarity(newFaceData, existingVoters[i].faceData),
         <<35, 100>>)}

\* positions of the roster whose blob is byte-for-byte the new blob
Identical(newFaceData, existingVoters) ==
  {i \in 1..Len(existingVoters) : existingVoters[i].faceData = newFaceData}

Lowest(S) == CHOOSE i \in S : \A j \in S : i <= j

Guarded == probe.phase = "isFaceAlreadyRegistered"

FirstOf(positions) ==
  probe.result.isDuplicate /\ probe.result.existingVoter = Lowest(positions)

QualityFailureReported ==
  (Guarded /\ ~validateFaceImageQuality(probe.newFaceData).isValid) =>
    /\ ~probe.threw
    /\ ~probe.result.isDuplicate
    /\ probe.result.existingVoter = 0
    /\ probe.result.details = "Face image quality insufficient"
    /\ probe.result.details # isFaceAlreadyRegistered(FaceA, <<>>).details

SimilarityTo(i) ==
  calculateStrictVotingFaceSimilarity(probe.faceData, probe.voters[i].faceData)

\* the two blob strings differ in size by less than 5% of their mean size
SizesWithinFivePercent(i) ==
  40 * Abs(StrLen(probe.faceData) - StrLen(probe.voters[i].faceData))
    < StrLen(probe.faceData) + StrLen(probe.voters[i].faceData)

\* the records of the roster that the two-tier rule flags
Flagged ==
  {i \in 1..Len(probe.voters) :
     \/ RGe(SimilarityTo(i), <<45, 100>>)
     \/ RGe(SimilarityTo(i), <<40, 100>>) /\ SizesWithinFivePercent(i)}

\* C24: the two-tier duplicate rule of utils/duplicateDetection.  A record
\* is flagged if and only if its similarity is at least 0.45, or at least
\* 0.40 with blob strings that differ in size by less than 5%; the first
\* flagged record of the roster is returned, and isDuplicate = false with
\* existingVoter = null when no record is flagged.
TwoTierRule ==
  probe.phase = "duplicateDetection.isFaceAlreadyRegistered" =>
    IF Flagged = {}
      THEN ~probe.result.isDuplicate /\ probe.result.existingVoter = 0
      ELSE /\ probe.result.isDuplicate
           /\ probe.result.existingVoter \in Flagged
           /\ \A i \in Flagged : probe.result.existingVoter <= i

\* the second record is returned on the second tier: its similarity is
\* between 0.40 and 0.45 and its blob has the size of the new one, while the
\* first record is not flagged
TwoTierWitness ==
  /\ probe.phase = "duplicateDetection.isFaceAlreadyRegistered"
  /\ Len(probe.voters) = 2
  /\ probe.result.isDuplicate
  /\ probe.result.existingVoter = 2
  /\ RLt(probe.result.similarity, <<45, 100>>)
  /\ RGe(probe.result.similarity, <<40, 100>>)
  /\ StrLen(probe.faceData) = StrLen(probe.voters[2].faceData)

\* the stride of the loop the call is in
StridePositive ==
  /\ probe.phase = "segments"
       => segmentStride(comparedLength, segmentConfigs[probe.config]) > 0
  /\ probe.phase = "windows" => windowConfigs[probe.config].stride > 0

\* C30: termination.  Every call of the duplicate check, and of the scorer
\* it calls for each record of the roster, returns; the segment loop and the
\* sliding-window loop advance by a strictly positive stride whenever they
\* are reached.
GuardTerminates == []StridePositive /\ <>(probe.phase = "returned")

\* a call that has returned after its scorer has advanced through the
\* segment and window loops for every record of a full roster
GuardTerminatesWitness ==
  /\ probe.phase = "returned"
  /\ Len(probe.existingVoters) = MaxLoopRoster
  /\ probe.voter = 0
  /\ probe.advanced > 2 * MaxLoopRoster

(***************************************************************************)
(* Properties of VoteCasting                                               *)
(***************************************************************************)
\* C2: face re-verification precedes every ballot.  handleVote invokes
\* castVote only with a voter returned by a verifyVoter call that succeeded
\* after the most recent login or reset, and the page is never at the 'vote'
\* step while verifiedVoter is unset or verificationStatus is not 'success'.
VerifiedBeforeBallot ==
  /\ ui.ballot # NoBallot => ui.ballot.verifiedIn = ui.ballot.castIn
  /\ ui.step = "vote" =>
       (ui.verifiedVoter # NoVerifiedVoter /\ ui.verificationStatus = "success")

\* C18: three-attempt cap.  Within one login session at most three
\* verifyVoter calls are made; once three have been made no further capture
\* is started in that session; and when the failure of the third is
\* reported the page hands over: it schedules the reset to the login step.
ThreeAttemptCap ==
  [][/\ ui'.verifyCalls <= MAX_ATTEMPTS
     /\ (ui.verifyCalls >= MAX_ATTEMPTS /\ ui'.session = ui.session) =>
           /\ ui'.verificationAttempts = ui.verificationAttempts
           /\ ui'.isCapturing => ui.isCapturing
     /\ (ui.verifyCalls = MAX_ATTEMPTS /\ Len(ui.timers) = 1 /\ Runs(1, "failure")) =>
           (Len(ui'.timers) = 1 /\ ui'.timers[1].kind = "reset")]_vars

=========================================================================
